---- MODULE Spec2Model ----
(***************************************************************************)
(* Fixed-point arithmetic module (FixedPoint.c): float -> fixed            *)
(* converters, integer core operations and the eight public wrappers,      *)
(* for the 16-bit (Q7.8) and the 8-bit (Q3.4) container.                    *)
(*                                                                         *)
(* A float is the record [neg, m, e] with value (-1)^neg * m * 2^e and     *)
(* 0 <= m < 2^FLT_MANT_DIG: every such dyadic value is an IEEE binary32    *)
(* value, and float arithmetic is evaluated in binary32 (round to nearest, *)
(* ties to even), as the source's float expressions are.                   *)
(*                                                                         *)
(* Integer types have the widths Global_Types.h documents (sint16: 16 bit, *)
(* sint32: 32 bit).  A float -> integer conversion whose truncated value   *)
(* does not fit the target type is undefined in C: its result is a free    *)
(* choice among values of the target type (the type's extremes, the        *)
(* container boundaries and 0).  Infinite and NaN operands take the same   *)
(* undefined conversion as the large finite operands explored here.        *)
(***************************************************************************)
EXTENDS Integers, Sequences, FiniteSets, TLC

(***************************************************************************)
(* Bounds of the explored input set.                                       *)
(***************************************************************************)
\* quarter-LSB steps explored on each side of every anchor value
Radius == 2
\* half-LSB steps explored beyond the container range by the converter runs
Margin == 3
\* container values explored on each side of every 16-bit core anchor
CoreRadius == 2

(***************************************************************************)
(* Configuration and types (FixedPoint_cfg.h, Global_Types.h).             *)
(***************************************************************************)
SHIFT_16 == 8
SHIFT_8 == 4

RECURSIVE Pow2(_)
Pow2(n) == IF n <= 0 THEN 1 ELSE 2 * Pow2(n - 1)

SCALE_16 == Pow2(SHIFT_16)
SCALE_8 == Pow2(SHIFT_8)

FIX16_MAX == 32767
FIX16_MIN == -32768
FIX8_MAX == 127
FIX8_MIN == -128

E_OK == 0
E_NOT_OK == 1

\* value ranges of the widened integer types
SINT16_MAX == 32767
SINT16_MIN == -32768
SINT32_MAX == 2147483647
SINT32_MIN == (-2147483647) - 1

\* significand width of the type float
FLT_MANT_DIG == 24

(***************************************************************************)
(* Integer and float helpers.                                              *)
(***************************************************************************)
Abs(x) == IF x < 0 THEN -x ELSE x

RECURSIVE BitLen(_)
BitLen(m) == IF m <= 0 THEN 0 ELSE 1 + BitLen(m \div 2)

\* canonical form of the float (-1)^neg * m * 2^e (odd significand)
RECURSIVE FNorm(_, _, _)
FNorm(neg, m, e) ==
    IF m = 0 THEN [neg |-> FALSE, m |-> 0, e |-> 0]
    ELSE IF m % 2 = 0 THEN FNorm(neg, m \div 2, e + 1)
    ELSE [neg |-> neg, m |-> m, e |-> e]

\* val * (float)SCALE: multiplication by a power of two is exact
FMulPow2(f, shift) == FNorm(f.neg, f.m, f.e + shift)

\* (float)i / (float)SCALE for a container value i: both steps are exact
FDivPow2(i, shift) == FNorm(i < 0, Abs(i), -shift)

\* narrowing conversion to a signed integer of the given width
NarrowTo(x, bits) ==
    (((x % Pow2(bits)) + Pow2(bits - 1)) % Pow2(bits)) - Pow2(bits - 1)

\* AddHalfTrunc truncating without the rounding offset
AddHalfTrunc_NoOffset(m, e) ==
    IF e >= 0
    THEN IF BitLen(m) + e > 31
         THEN [big |-> TRUE, v |-> 0,
               p31 |-> (m = Pow2(BitLen(m) - 1) /\ BitLen(m) + e = 32)]
         ELSE [big |-> FALSE, p31 |-> FALSE, v |-> m * Pow2(e)]
    ELSE IF BitLen(m) + e <= 0
         THEN [big |-> FALSE, p31 |-> FALSE, v |-> 0]
         ELSE [big |-> FALSE, p31 |-> FALSE, v |-> m \div Pow2(-e)]

(***************************************************************************)
(* (integer)(|x| + 0.5f) for the float |x| = m * 2^e: the binary32 sum     *)
(* rounded to nearest-even, then truncated.  big: the truncated magnitude  *)
(* is 2^31 or more (p31: exactly 2^31); otherwise v is the magnitude.      *)
(***************************************************************************)
AddHalfTrunc(m, e) ==
    IF e >= 0
    THEN IF BitLen(m) + e > 31
         THEN [big |-> TRUE, v |-> 0,
               p31 |-> (m = Pow2(BitLen(m) - 1) /\ BitLen(m) + e = 32)]
         ELSE LET x == m * Pow2(e)
              IN  [big |-> FALSE, p31 |-> FALSE,
                   v |-> IF e = 0 /\ BitLen(m) = FLT_MANT_DIG /\ m % 2 = 1
                         THEN x + 1 ELSE x]
    ELSE LET k == -e
         IN  IF BitLen(m) - k <= -2
             THEN [big |-> FALSE, p31 |-> FALSE, v |-> 0]
             ELSE LET N == m + Pow2(k - 1)
                      R == IF BitLen(N) <= FLT_MANT_DIG THEN N
                           ELSE IF N % 2 = 0 THEN N
                           ELSE IF (N \div 2) % 2 = 1 THEN N + 1
                           ELSE N - 1
                  IN  [big |-> FALSE, p31 |-> FALSE, v |-> R \div Pow2(k)]

\* the float -> sint32 conversion has no defined result
Undef32(neg, t) == t.big /\ ~(neg /\ t.p31)

\* (sint32)f ; ub is the value an undefined conversion yields
CastSint32(neg, t, ub) ==
    IF Undef32(neg, t) THEN ub
    ELSE IF t.big THEN SINT32_MIN
    ELSE IF neg THEN -t.v ELSE t.v

\* the float -> sint16 conversion has no defined result
Undef16(neg, t) ==
    \/ t.big
    \/ (~neg /\ t.v > SINT16_MAX)
    \/ (neg /\ -t.v < SINT16_MIN)

\* (sint16)f ; ub is the value an undefined conversion yields
CastSint16(neg, t, ub) ==
    IF Undef16(neg, t) THEN ub
    ELSE IF neg THEN -t.v ELSE t.v

\* result of a converter or core call: ret the status, pre the widened
\* value before the saturation check, sat the value after it, raw the
\* container value stored through the output pointer
Res(ret, pre, sat, bits) ==
    [run |-> TRUE, ret |-> ret, pre |-> pre, sat |-> sat,
     raw |-> NarrowTo(sat, bits)]

\* a step that was not executed
NoRes == [run |-> FALSE, ret |-> E_NOT_OK, pre |-> 0, sat |-> 0, raw |-> 0]

\* Saturate without its lower bound check
Saturate_NoLowerCheck(tmp, min, max, bits) ==
    IF tmp > max THEN Res(E_NOT_OK, tmp, max, bits)
    ELSE Res(E_OK, tmp, tmp, bits)

\* saturation check shared by all converters and cores
Saturate(tmp, min, max, bits) ==
    IF tmp > max THEN Res(E_NOT_OK, tmp, max, bits)
    ELSE IF tmp < min THEN Res(E_NOT_OK, tmp, min, bits)
    ELSE Res(E_OK, tmp, tmp, bits)

(***************************************************************************)
(* Converters.                                                             *)
(***************************************************************************)
\* Scaled16 multiplying by half of SCALE_16
Scaled16_HalfScale(val) == FMulPow2(val, SHIFT_16 - 1)

Scaled16(val) == FMulPow2(val, SHIFT_16)
Scaled8(val) == FMulPow2(val, SHIFT_8)

FixedPoint_FloatToFix16(val, ub) ==
    LET scaled_f == Scaled16(val)
        t == AddHalfTrunc(scaled_f.m, scaled_f.e)
        scaled_i == CastSint32(scaled_f.neg, t, ub)
    IN  Saturate(scaled_i, FIX16_MIN, FIX16_MAX, 16)

\* FixedPoint_Fix16ToFloat returning the container value undivided
FixedPoint_Fix16ToFloat_NoScale(val) == FDivPow2(val, 0)

FixedPoint_Fix16ToFloat(val) == FDivPow2(val, SHIFT_16)

\* FixedPoint_FloatToFix8 saturating one step below FIX8_MAX
FixedPoint_FloatToFix8_ExclusiveMax(val, ub) ==
    LET scaled_f == Scaled8(val)
        t == AddHalfTrunc(scaled_f.m, scaled_f.e)
        scaled_i == CastSint16(scaled_f.neg, t, ub)
    IN  Saturate(scaled_i, FIX8_MIN, FIX8_MAX - 1, 8)

FixedPoint_FloatToFix8(val, ub) ==
    LET scaled_f == Scaled8(val)
        t == AddHalfTrunc(scaled_f.m, scaled_f.e)
        scaled_i == CastSint16(scaled_f.neg, t, ub)
    IN  Saturate(scaled_i, FIX8_MIN, FIX8_MAX, 8)

FixedPoint_Fix8ToFloat(val) == FDivPow2(val, SHIFT_8)

(***************************************************************************)
(* Core operations on container values.                                    *)
(***************************************************************************)
\* FixedPoint_Add16_Core storing the sum without the saturation check
FixedPoint_Add16_Core_Wraps(a, b) == Res(E_OK, a + b, a + b, 16)

FixedPoint_Add16_Core(a, b) == Saturate(a + b, FIX16_MIN, FIX16_MAX, 16)

FixedPoint_Sub16_Core(a, b) == Saturate(a - b, FIX16_MIN, FIX16_MAX, 16)

\* RoundShift without the rounding offset
RoundShift_Truncates(tmp, shift) ==
    IF shift > 0
    THEN LET neg == tmp < 0
             mag == IF neg THEN -tmp ELSE tmp
             mag2 == mag \div Pow2(shift)
         IN  IF neg THEN -mag2 ELSE mag2
    ELSE tmp

\* magnitude-domain rounding of the widened product
RoundShift(tmp, shift) ==
    IF shift > 0
    THEN LET half == Pow2(shift - 1)
             neg == tmp < 0
             mag == IF neg THEN -tmp ELSE tmp
             mag2 == (mag + half) \div Pow2(shift)
         IN  IF neg THEN -mag2 ELSE mag2
    ELSE tmp

FixedPoint_Mult16_Core(a, b) ==
    Saturate(RoundShift(a * b, SHIFT_16), FIX16_MIN, FIX16_MAX, 16)

\* a quotient whose numerator lacks the half-divisor bias: it truncates
RoundDiv_NoBias(a, b, shift) ==
    LET neg == (a < 0) # (b < 0)
        num_mag == Abs(a)
        den_mag == Abs(b)
        num2 == num_mag * Pow2(shift)
        tmp == num2 \div den_mag
    IN  IF neg THEN -tmp ELSE tmp

\* magnitude-domain rounded quotient (b # 0)
RoundDiv(a, b, shift) ==
    LET neg == (a < 0) # (b < 0)
        num_mag == Abs(a)
        den_mag == Abs(b)
        num2 == (num_mag * Pow2(shift)) + (den_mag \div 2)
        tmp == num2 \div den_mag
    IN  IF neg THEN -tmp ELSE tmp

FixedPoint_Div16_Core(a, b) ==
    Saturate(RoundDiv(a, b, SHIFT_16), FIX16_MIN, FIX16_MAX, 16)

FixedPoint_Add8_Core(a, b) == Saturate(a + b, FIX8_MIN, FIX8_MAX, 8)

\* FixedPoint_Sub8_Core negating b in the container type before adding
FixedPoint_Sub8_Core_NegatesInContainer(a, b) ==
    Saturate(a + NarrowTo(-b, 8), FIX8_MIN, FIX8_MAX, 8)

FixedPoint_Sub8_Core(a, b) == Saturate(a - b, FIX8_MIN, FIX8_MAX, 8)

\* FixedPoint_Mult8_Core rounding by an arithmetic shift of the signed product
FixedPoint_Mult8_Core_SignedShift(a, b) ==
    Saturate(((a * b) + Pow2(SHIFT_8 - 1)) \div Pow2(SHIFT_8),
             FIX8_MIN, FIX8_MAX, 8)

FixedPoint_Mult8_Core(a, b) ==
    Saturate(RoundShift(a * b, SHIFT_8), FIX8_MIN, FIX8_MAX, 8)

FixedPoint_Div8_Core(a, b) ==
    Saturate(RoundDiv(a, b, SHIFT_8), FIX8_MIN, FIX8_MAX, 8)

(***************************************************************************)
(* Explored inputs: real operands on the quarter-LSB grid around anchor    *)
(* values of each width, the largest floats below half an LSB, and values  *)
(* whose scaled form leaves the intermediate integer of the converter.     *)
(***************************************************************************)
\* the float q / (4 * 2^shift)
FromQuarters(q, shift) == FNorm(q < 0, Abs(q), -(shift + 2))

Window(c) == (c - Radius)..(c + Radius)

Anchors(min, max, scale) == {0, 4 * max, 4 * min, 4 * 2 * scale}

GridInputs(min, max, scale, shift) ==
    {FromQuarters(q, shift) :
        q \in UNION {Window(c) : c \in Anchors(min, max, scale)}}

\* the largest float below 0.5 / 2^shift, and its negation
BelowHalf(neg, shift) ==
    [neg |-> neg, m |-> Pow2(FLT_MANT_DIG) - 1, e |-> -(FLT_MANT_DIG + 1 + shift)]

\* +/- 2^k
PowerOfTwo(neg, k) == [neg |-> neg, m |-> 1, e |-> k]

SpecialInputs ==
    {BelowHalf(n, s) : n \in BOOLEAN, s \in {SHIFT_8, SHIFT_16}}
    \cup {PowerOfTwo(n, k) : n \in BOOLEAN, k \in {11, 12, 23, 100}}

\* one resolution step of each width, and its negation
ResolutionInputs ==
    {FromQuarters(4 * k, s) : k \in {-1, 1}, s \in {SHIFT_8, SHIFT_16}}

Inputs ==
    GridInputs(FIX8_MIN, FIX8_MAX, SCALE_8, SHIFT_8)
    \cup GridInputs(FIX16_MIN, FIX16_MAX, SCALE_16, SHIFT_16)
    \cup SpecialInputs
    \cup ResolutionInputs

\* values the output slot holds before a call
Sentinels == {FNorm(TRUE, 99, 0), FNorm(FALSE, 0, 0)}

\* values an undefined float -> integer conversion may yield
UB16(val) ==
    LET s == Scaled8(val)
    IN  IF Undef16(s.neg, AddHalfTrunc(s.m, s.e))
        THEN {SINT16_MIN, FIX8_MIN, 0, FIX8_MAX, SINT16_MAX}
        ELSE {0}

UB32(val) ==
    LET s == Scaled16(val)
    IN  IF Undef32(s.neg, AddHalfTrunc(s.m, s.e))
        THEN {SINT32_MIN, FIX16_MIN, 0, FIX16_MAX, SINT32_MAX}
        ELSE {0}

(***************************************************************************)
(* State: one call of a public wrapper.                                    *)
(*   pc      "idle" before the call, "done" after its return               *)
(*   fn      the wrapper that was called                                   *)
(*   val1, val2  the float operands                                        *)
(*   outp    result # NULL                                                 *)
(*   slot    the float stored at *result                                   *)
(*   ret     the returned status                                           *)
(*   conv1, conv2, core  results of the three inner calls                  *)
(*   trace   the inner steps in the order they were executed               *)
(* State of concurrent calls (one call in progress per thread):            *)
(*   calls   per thread: position, wrapper, operands, output slot, status   *)
(*           and the converted operands a and b of the call; overlapped:    *)
(*           another thread was inside a call when this one wrote back      *)
(*   frames  per stack frame: the local rFixed of the call                 *)
(* State of a core operation run under a chosen configuration:             *)
(*   cfg     the fractional bits SHIFT_16 and SHIFT_8 of the build          *)
(*   wide    the intermediate values the core computed, each with the       *)
(*           integer type that holds it                                     *)
(***************************************************************************)
VARIABLES pc, fn, val1, val2, outp, slot, ret, conv1, conv2, core, trace,
          calls, frames, cfg, wide

vars == <<pc, fn, val1, val2, outp, slot, ret, conv1, conv2, core, trace,
          calls, frames, cfg, wide>>

\* the configuration of the repository
Shipped == [shift16 |-> SHIFT_16, shift8 |-> SHIFT_8]

\* number of threads calling the wrappers concurrently
NumThreads == 2

Threads == 1..NumThreads

\* value a caller's output slot holds before the call
SlotBefore == FNorm(TRUE, 99, 0)

\* a thread that has not called yet
NoCall ==
    [pc |-> "ready", fn |-> "none",
     val1 |-> FNorm(FALSE, 0, 0), val2 |-> FNorm(FALSE, 0, 0),
     outp |-> TRUE, slot |-> SlotBefore, ret |-> E_NOT_OK,
     conv1 |-> NoRes, conv2 |-> NoRes, overlapped |-> FALSE]

NoCalls == [t \in Threads |-> NoCall]
NoFrames == [t \in Threads |-> NoRes]

Init ==
    /\ pc = "idle"
    /\ fn = "none"
    /\ val1 \in Inputs
    /\ val2 \in Inputs
    /\ outp \in BOOLEAN
    /\ slot \in Sentinels
    /\ ret = E_NOT_OK
    /\ conv1 = NoRes
    /\ conv2 = NoRes
    /\ core = NoRes
    /\ trace = <<>>
    /\ calls = NoCalls
    /\ frames = NoFrames
    /\ cfg = Shipped
    /\ wide = {}

\* Aggregate looking at the core status only
Aggregate_CoreOnly(c1, c2, c) ==
    IF c.ret = E_OK THEN E_OK ELSE E_NOT_OK

\* aggregated status of the three inner calls
Aggregate(c1, c2, c) ==
    IF (c1.ret = E_OK) /\ (c2.ret = E_OK) /\ (c.ret = E_OK)
    THEN E_OK ELSE E_NOT_OK

\* return with result = NULL: ret keeps its initial value
ReturnNull(name) ==
    /\ pc' = "done"
    /\ fn' = name
    /\ ret' = E_NOT_OK
    /\ conv1' = NoRes
    /\ conv2' = NoRes
    /\ core' = NoRes
    /\ trace' = <<>>
    /\ UNCHANGED <<val1, val2, outp, slot, calls, frames, cfg, wide>>

\* ReturnArith writing the slot only when the status is E_OK
ReturnArith_WriteOnlyOnOk(name, c1, c2, c, out) ==
    /\ pc' = "done"
    /\ fn' = name
    /\ conv1' = c1
    /\ conv2' = c2
    /\ core' = c
    /\ ret' = Aggregate(c1, c2, c)
    /\ slot' = IF Aggregate(c1, c2, c) = E_OK THEN out ELSE slot
    /\ trace' = IF Aggregate(c1, c2, c) = E_OK
                THEN <<"conv1", "conv2", "core", "write">>
                ELSE <<"conv1", "conv2", "core">>
    /\ UNCHANGED <<val1, val2, outp, calls, frames, cfg, wide>>

\* return of Add / Sub / Mult with result # NULL
ReturnArith(name, c1, c2, c, out) ==
    /\ pc' = "done"
    /\ fn' = name
    /\ conv1' = c1
    /\ conv2' = c2
    /\ core' = c
    /\ ret' = Aggregate(c1, c2, c)
    /\ slot' = out
    /\ trace' = <<"conv1", "conv2", "core", "write">>
    /\ UNCHANGED <<val1, val2, outp, calls, frames, cfg, wide>>

\* ReturnDiv converting the dividend before the divisor
ReturnDiv_DividendFirst(name, c1, c2, c, out) ==
    /\ pc' = "done"
    /\ fn' = name
    /\ conv1' = c1
    /\ conv2' = c2
    /\ core' = c
    /\ ret' = Aggregate(c1, c2, c)
    /\ slot' = out
    /\ trace' = <<"conv1", "conv2", "core", "write">>
    /\ UNCHANGED <<val1, val2, outp, calls, frames, cfg, wide>>

\* return of Div with a non-zero converted divisor
ReturnDiv(name, c1, c2, c, out) ==
    /\ pc' = "done"
    /\ fn' = name
    /\ conv1' = c1
    /\ conv2' = c2
    /\ core' = c
    /\ ret' = Aggregate(c1, c2, c)
    /\ slot' = out
    /\ trace' = <<"conv2", "conv1", "core", "write">>
    /\ UNCHANGED <<val1, val2, outp, calls, frames, cfg, wide>>

\* ReturnDivZero storing 0.0 in the output slot
ReturnDivZero_ZeroesSlot(name, c2) ==
    /\ pc' = "done"
    /\ fn' = name
    /\ conv1' = NoRes
    /\ conv2' = c2
    /\ core' = NoRes
    /\ ret' = E_NOT_OK
    /\ slot' = FNorm(FALSE, 0, 0)
    /\ trace' = <<"conv2">>
    /\ UNCHANGED <<val1, val2, outp, calls, frames, cfg, wide>>

\* ReturnDivZero reporting success
ReturnDivZero_ReportsOk(name, c2) ==
    /\ pc' = "done"
    /\ fn' = name
    /\ conv1' = NoRes
    /\ conv2' = c2
    /\ core' = NoRes
    /\ ret' = E_OK
    /\ trace' = <<"conv2">>
    /\ UNCHANGED <<val1, val2, outp, slot, calls, frames, cfg, wide>>

\* return of Div with a zero converted divisor
ReturnDivZero(name, c2) ==
    /\ pc' = "done"
    /\ fn' = name
    /\ conv1' = NoRes
    /\ conv2' = c2
    /\ core' = NoRes
    /\ ret' = E_NOT_OK
    /\ trace' = <<"conv2">>
    /\ UNCHANGED <<val1, val2, outp, slot, calls, frames, cfg, wide>>

(***************************************************************************)
(* Public wrappers.                                                        *)
(***************************************************************************)
FixedPoint_Add16 ==
    /\ pc = "idle"
    /\ IF outp
       THEN \E ub1 \in UB32(val1), ub2 \in UB32(val2) :
              LET a == FixedPoint_FloatToFix16(val1, ub1)
                  b == FixedPoint_FloatToFix16(val2, ub2)
                  rFixed == FixedPoint_Add16_Core(a.raw, b.raw)
              IN  ReturnArith("Add16", a, b, rFixed,
                              FixedPoint_Fix16ToFloat(rFixed.raw))
       ELSE ReturnNull("Add16")

FixedPoint_Sub16 ==
    /\ pc = "idle"
    /\ IF outp
       THEN \E ub1 \in UB32(val1), ub2 \in UB32(val2) :
              LET a == FixedPoint_FloatToFix16(val1, ub1)
                  b == FixedPoint_FloatToFix16(val2, ub2)
                  rFixed == FixedPoint_Sub16_Core(a.raw, b.raw)
              IN  ReturnArith("Sub16", a, b, rFixed,
                              FixedPoint_Fix16ToFloat(rFixed.raw))
       ELSE ReturnNull("Sub16")

\* FixedPoint_Mult16 without the check of the result pointer
FixedPoint_Mult16_NoNullCheck ==
    /\ pc = "idle"
    /\ \E ub1 \in UB32(val1), ub2 \in UB32(val2) :
         LET a == FixedPoint_FloatToFix16(val1, ub1)
             b == FixedPoint_FloatToFix16(val2, ub2)
             rFixed == FixedPoint_Mult16_Core(a.raw, b.raw)
         IN  ReturnArith("Mult16", a, b, rFixed,
                         FixedPoint_Fix16ToFloat(rFixed.raw))

FixedPoint_Mult16 ==
    /\ pc = "idle"
    /\ IF outp
       THEN \E ub1 \in UB32(val1), ub2 \in UB32(val2) :
              LET a == FixedPoint_FloatToFix16(val1, ub1)
                  b == FixedPoint_FloatToFix16(val2, ub2)
                  rFixed == FixedPoint_Mult16_Core(a.raw, b.raw)
              IN  ReturnArith("Mult16", a, b, rFixed,
                              FixedPoint_Fix16ToFloat(rFixed.raw))
       ELSE ReturnNull("Mult16")

FixedPoint_Div16 ==
    /\ pc = "idle"
    /\ IF outp
       THEN \E ub2 \in UB32(val2) :
              LET b == FixedPoint_FloatToFix16(val2, ub2)
              IN  IF b.raw # 0
                  THEN \E ub1 \in UB32(val1) :
                         LET a == FixedPoint_FloatToFix16(val1, ub1)
                             rFixed == FixedPoint_Div16_Core(a.raw, b.raw)
                         IN  ReturnDiv("Div16", a, b, rFixed,
                                       FixedPoint_Fix16ToFloat(rFixed.raw))
                  ELSE ReturnDivZero("Div16", b)
       ELSE ReturnNull("Div16")

FixedPoint_Add8 ==
    /\ pc = "idle"
    /\ IF outp
       THEN \E ub1 \in UB16(val1), ub2 \in UB16(val2) :
              LET a == FixedPoint_FloatToFix8(val1, ub1)
                  b == FixedPoint_FloatToFix8(val2, ub2)
                  rFixed == FixedPoint_Add8_Core(a.raw, b.raw)
              IN  ReturnArith("Add8", a, b, rFixed,
                              FixedPoint_Fix8ToFloat(rFixed.raw))
       ELSE ReturnNull("Add8")

FixedPoint_Sub8 ==
    /\ pc = "idle"
    /\ IF outp
       THEN \E ub1 \in UB16(val1), ub2 \in UB16(val2) :
              LET a == FixedPoint_FloatToFix8(val1, ub1)
                  b == FixedPoint_FloatToFix8(val2, ub2)
                  rFixed == FixedPoint_Sub8_Core(a.raw, b.raw)
              IN  ReturnArith("Sub8", a, b, rFixed,
                              FixedPoint_Fix8ToFloat(rFixed.raw))
       ELSE ReturnNull("Sub8")

FixedPoint_Mult8 ==
    /\ pc = "idle"
    /\ IF outp
       THEN \E ub1 \in UB16(val1), ub2 \in UB16(val2) :
              LET a == FixedPoint_FloatToFix8(val1, ub1)
                  b == FixedPoint_FloatToFix8(val2, ub2)
                  rFixed == FixedPoint_Mult8_Core(a.raw, b.raw)
              IN  ReturnArith("Mult8", a, b, rFixed,
                              FixedPoint_Fix8ToFloat(rFixed.raw))
       ELSE ReturnNull("Mult8")

\* FixedPoint_Div8 testing the real divisor, not the converted one, for zero;
\* a division by raw 0 is recorded as a core run that reports E_NOT_OK
FixedPoint_Div8_TestsRealDivisor ==
    /\ pc = "idle"
    /\ IF outp
       THEN \E ub2 \in UB16(val2) :
              LET b == FixedPoint_FloatToFix8(val2, ub2)
              IN  IF val2.m # 0
                  THEN \E ub1 \in UB16(val1) :
                         LET a == FixedPoint_FloatToFix8(val1, ub1)
                             rFixed ==
                                 IF b.raw # 0
                                 THEN FixedPoint_Div8_Core(a.raw, b.raw)
                                 ELSE Res(E_NOT_OK, 0, 0, 8)
                         IN  ReturnDiv("Div8", a, b, rFixed,
                                       FixedPoint_Fix8ToFloat(rFixed.raw))
                  ELSE ReturnDivZero("Div8", b)
       ELSE ReturnNull("Div8")

FixedPoint_Div8 ==
    /\ pc = "idle"
    /\ IF outp
       THEN \E ub2 \in UB16(val2) :
              LET b == FixedPoint_FloatToFix8(val2, ub2)
              IN  IF b.raw # 0
                  THEN \E ub1 \in UB16(val1) :
                         LET a == FixedPoint_FloatToFix8(val1, ub1)
                             rFixed == FixedPoint_Div8_Core(a.raw, b.raw)
                         IN  ReturnDiv("Div8", a, b, rFixed,
                                       FixedPoint_Fix8ToFloat(rFixed.raw))
                  ELSE ReturnDivZero("Div8", b)
       ELSE ReturnNull("Div8")

Next ==
    \/ FixedPoint_Add16
    \/ FixedPoint_Sub16
    \/ FixedPoint_Mult16
    \/ FixedPoint_Div16
    \/ FixedPoint_Add8
    \/ FixedPoint_Sub8
    \/ FixedPoint_Mult8
    \/ FixedPoint_Div8

Spec == Init /\ [][Next]_vars

(***************************************************************************)
(* The converters on their own: every operand on the half-LSB grid of the  *)
(* 16-bit range and on the quarter-LSB grid of the 8-bit range, converted  *)
(* to a container value and then back to a float.                          *)
(***************************************************************************)
HalfGrid(min, max, shift) ==
    {FNorm(h < 0, Abs(h), -(shift + 1)) :
        h \in ((2 * min) - Margin)..((2 * max) + Margin)}

QuarterGrid(min, max, shift) ==
    {FromQuarters(q, shift) : q \in ((4 * min) - Margin)..((4 * max) + Margin)}

ConvInputs ==
    HalfGrid(FIX16_MIN, FIX16_MAX, SHIFT_16)
    \cup QuarterGrid(FIX8_MIN, FIX8_MAX, SHIFT_8)
    \cup SpecialInputs

Init_Conv ==
    /\ pc = "conv"
    /\ fn = "none"
    /\ val1 \in ConvInputs
    /\ val2 = FNorm(FALSE, 0, 0)
    /\ outp = TRUE
    /\ slot = FNorm(FALSE, 0, 0)
    /\ ret = E_NOT_OK
    /\ conv1 = NoRes
    /\ conv2 = NoRes
    /\ core = NoRes
    /\ trace = <<>>
    /\ calls = NoCalls
    /\ frames = NoFrames
    /\ cfg = Shipped
    /\ wide = {}

\* return of a converter called on val1
ReturnConv(name, c1) ==
    /\ pc' = "done"
    /\ fn' = name
    /\ conv1' = c1
    /\ ret' = c1.ret
    /\ trace' = <<"conv1">>
    /\ UNCHANGED <<val1, val2, outp, slot, conv2, core, calls, frames, cfg, wide>>

Call_FloatToFix16 ==
    /\ pc = "conv"
    /\ \E ub \in UB32(val1) :
         ReturnConv("FloatToFix16", FixedPoint_FloatToFix16(val1, ub))

Call_FloatToFix8 ==
    /\ pc = "conv"
    /\ \E ub \in UB16(val1) :
         ReturnConv("FloatToFix8", FixedPoint_FloatToFix8(val1, ub))

\* return of the inverse converter called on the stored container value
ReturnBack(name, f) ==
    /\ pc' = "back"
    /\ fn' = name
    /\ slot' = f
    /\ trace' = <<"conv1", "back">>
    /\ UNCHANGED <<val1, val2, outp, ret, conv1, conv2, core, calls, frames, cfg, wide>>

Call_Fix16ToFloat ==
    /\ pc = "done"
    /\ fn = "FloatToFix16"
    /\ ReturnBack("Fix16ToFloat", FixedPoint_Fix16ToFloat(conv1.raw))

Call_Fix8ToFloat ==
    /\ pc = "done"
    /\ fn = "FloatToFix8"
    /\ ReturnBack("Fix8ToFloat", FixedPoint_Fix8ToFloat(conv1.raw))

Next_Conv ==
    \/ Call_FloatToFix16
    \/ Call_FloatToFix8
    \/ Call_Fix16ToFloat
    \/ Call_Fix8ToFloat

SpecConv == Init_Conv /\ [][Next_Conv]_vars

(***************************************************************************)
(* The core operations on their own: every pair of 8-bit container values, *)
(* and the 16-bit container values around the anchors MIN, -1.0, 0, 1.0    *)
(* and MAX.  conv1 and conv2 hold the operands a and b.                    *)
(***************************************************************************)
Operands8 == FIX8_MIN..FIX8_MAX

Operands16 ==
    UNION {(c - CoreRadius)..(c + CoreRadius) :
              c \in {FIX16_MIN, -SCALE_16, 0, SCALE_16, FIX16_MAX}}
    \cap (FIX16_MIN..FIX16_MAX)

\* a container value handed to a core operation
Operand(x) ==
    [run |-> FALSE, ret |-> E_OK, pre |-> x, sat |-> x, raw |-> x]

Init_Core ==
    /\ pc = "core"
    /\ fn = "none"
    /\ val1 = FNorm(FALSE, 0, 0)
    /\ val2 = FNorm(FALSE, 0, 0)
    /\ outp = TRUE
    /\ slot = FNorm(FALSE, 0, 0)
    /\ ret = E_NOT_OK
    /\ \E a \in Operands8 \cup Operands16 : conv1 = Operand(a)
    /\ \E b \in Operands8 \cup Operands16 : conv2 = Operand(b)
    /\ core = NoRes
    /\ trace = <<>>
    /\ calls = NoCalls
    /\ frames = NoFrames
    /\ cfg = Shipped
    /\ wide = {}

\* return of a core operation called on the operands a and b
ReturnCore(name, c) ==
    /\ pc' = "done"
    /\ fn' = name
    /\ core' = c
    /\ ret' = c.ret
    /\ trace' = <<"core">>
    /\ UNCHANGED <<val1, val2, outp, slot, conv1, conv2, calls, frames, cfg, wide>>

Call_Add16_Core ==
    /\ pc = "core"
    /\ ReturnCore("Add16_Core", FixedPoint_Add16_Core(conv1.raw, conv2.raw))

Call_Sub16_Core ==
    /\ pc = "core"
    /\ ReturnCore("Sub16_Core", FixedPoint_Sub16_Core(conv1.raw, conv2.raw))

Call_Mult16_Core ==
    /\ pc = "core"
    /\ ReturnCore("Mult16_Core", FixedPoint_Mult16_Core(conv1.raw, conv2.raw))

\* the public wrapper calls the division core with b # 0 only
Call_Div16_Core ==
    /\ pc = "core"
    /\ conv2.raw # 0
    /\ ReturnCore("Div16_Core", FixedPoint_Div16_Core(conv1.raw, conv2.raw))

Call_Add8_Core ==
    /\ pc = "core"
    /\ conv1.raw \in Operands8 /\ conv2.raw \in Operands8
    /\ ReturnCore("Add8_Core", FixedPoint_Add8_Core(conv1.raw, conv2.raw))

Call_Sub8_Core ==
    /\ pc = "core"
    /\ conv1.raw \in Operands8 /\ conv2.raw \in Operands8
    /\ ReturnCore("Sub8_Core", FixedPoint_Sub8_Core(conv1.raw, conv2.raw))

Call_Mult8_Core ==
    /\ pc = "core"
    /\ conv1.raw \in Operands8 /\ conv2.raw \in Operands8
    /\ ReturnCore("Mult8_Core", FixedPoint_Mult8_Core(conv1.raw, conv2.raw))

Call_Div8_Core ==
    /\ pc = "core"
    /\ conv1.raw \in Operands8 /\ conv2.raw \in Operands8
    /\ conv2.raw # 0
    /\ ReturnCore("Div8_Core", FixedPoint_Div8_Core(conv1.raw, conv2.raw))

Next_Core ==
    \/ Call_Add16_Core
    \/ Call_Sub16_Core
    \/ Call_Mult16_Core
    \/ Call_Div16_Core
    \/ Call_Add8_Core
    \/ Call_Sub8_Core
    \/ Call_Mult8_Core
    \/ Call_Div8_Core

SpecCore == Init_Core /\ [][Next_Core]_vars

(***************************************************************************)
(* Wrappers, converters and core operations together.                      *)
(***************************************************************************)
Init_All == Init \/ Init_Conv \/ Init_Core

Next_All == Next \/ Next_Conv \/ Next_Core

SpecAll == Init_All /\ [][Next_All]_vars

(***************************************************************************)
(* Concurrent calls of the wrappers.  Every thread calls wrappers one      *)
(* after the other, each call with its own output slot; the steps of the   *)
(* calls of different threads interleave.  A call's operands, status and   *)
(* the converted operands a and b are automatic variables of the call; its *)
(* local rFixed lives in the stack frame Frame(t) of the calling thread.   *)
(***************************************************************************)
WideName(name) == name \in {"Add16", "Sub16", "Mult16", "Div16"}

DivName(name) == name \in {"Div16", "Div8"}

\* the converter, its undefined results, the core and the inverse
\* converter the wrapper of the given name calls
ConvFor(name, val, ub) ==
    IF WideName(name) THEN FixedPoint_FloatToFix16(val, ub)
    ELSE FixedPoint_FloatToFix8(val, ub)

UBFor(name, val) == IF WideName(name) THEN UB32(val) ELSE UB16(val)

CoreFor(name, a, b) ==
    CASE name = "Add16" -> FixedPoint_Add16_Core(a, b)
      [] name = "Sub16" -> FixedPoint_Sub16_Core(a, b)
      [] name = "Mult16" -> FixedPoint_Mult16_Core(a, b)
      [] name = "Div16" -> FixedPoint_Div16_Core(a, b)
      [] name = "Add8" -> FixedPoint_Add8_Core(a, b)
      [] name = "Sub8" -> FixedPoint_Sub8_Core(a, b)
      [] name = "Mult8" -> FixedPoint_Mult8_Core(a, b)
      [] name = "Div8" -> FixedPoint_Div8_Core(a, b)

BackFor(name, raw) ==
    IF WideName(name) THEN FixedPoint_Fix16ToFloat(raw)
    ELSE FixedPoint_Fix8ToFloat(raw)

\* the calls the threads make
ThreadCall(name, x, y, out) ==
    [fn |-> name, val1 |-> x, val2 |-> y, outp |-> out]

ThreadCalls ==
    {ThreadCall("Add16", FDivPow2(FIX16_MAX, SHIFT_16),
                FDivPow2(1, SHIFT_16), TRUE),
     ThreadCall("Div8", PowerOfTwo(FALSE, 0), FNorm(FALSE, 0, 0), TRUE),
     ThreadCall("Div16", PowerOfTwo(TRUE, 0), FDivPow2(3, SHIFT_16), TRUE),
     ThreadCall("Add8", PowerOfTwo(FALSE, 12), FNorm(FALSE, 0, 0), TRUE),
     ThreadCall("Mult16", PowerOfTwo(FALSE, 1), PowerOfTwo(FALSE, 1), FALSE)}

\* all calls share the frame of thread 1 (rFixed with static storage)
Frame_Static(t) == 1

\* the stack frame holding the locals of a call of thread t
Frame(t) == t

\* the thread is inside a call
Busy(t) == calls[t].pc \notin {"ready", "done"}

\* another thread is inside a call
Overlap(t) == \E u \in Threads \ {t} : Busy(u)

Init_Threads ==
    /\ pc = "threads"
    /\ fn = "none"
    /\ val1 = FNorm(FALSE, 0, 0)
    /\ val2 = FNorm(FALSE, 0, 0)
    /\ outp = TRUE
    /\ slot = FNorm(FALSE, 0, 0)
    /\ ret = E_NOT_OK
    /\ conv1 = NoRes
    /\ conv2 = NoRes
    /\ core = NoRes
    /\ trace = <<>>
    /\ calls = NoCalls
    /\ frames = NoFrames
    /\ cfg = Shipped
    /\ wide = {}

Sequential ==
    <<pc, fn, val1, val2, outp, slot, ret, conv1, conv2, core, trace,
      cfg, wide>>

\* entry of a wrapper: ret = E_NOT_OK, the check of result, rFixed = 0;
\* with result = NULL the wrapper returns at once
Invoke(t) ==
    /\ calls[t].pc \in {"ready", "done"}
    /\ \E c \in ThreadCalls :
         /\ calls' = [calls EXCEPT ![t] =
                [NoCall EXCEPT !.pc = IF c.outp THEN "first" ELSE "done",
                               !.fn = c.fn, !.val1 = c.val1,
                               !.val2 = c.val2, !.outp = c.outp]]
         /\ frames' = IF c.outp THEN [frames EXCEPT ![Frame(t)] = NoRes]
                      ELSE frames
    /\ UNCHANGED Sequential

\* the first conversion: val2 in Div (which returns on b = 0), else val1
FirstConversion(t) ==
    LET c == calls[t]
    IN  /\ c.pc = "first"
        /\ IF DivName(c.fn)
           THEN \E ub \in UBFor(c.fn, c.val2) :
                  LET b == ConvFor(c.fn, c.val2, ub)
                  IN  calls' = [calls EXCEPT ![t] =
                         [c EXCEPT !.conv2 = b,
                                   !.pc = IF b.raw # 0 THEN "second"
                                          ELSE "done",
                                   !.ret = E_NOT_OK]]
           ELSE \E ub \in UBFor(c.fn, c.val1) :
                  calls' = [calls EXCEPT ![t] =
                     [c EXCEPT !.conv1 = ConvFor(c.fn, c.val1, ub),
                               !.pc = "second"]]
        /\ UNCHANGED <<frames, Sequential>>

\* the second conversion: val1 in Div, else val2
SecondConversion(t) ==
    LET c == calls[t]
    IN  /\ c.pc = "second"
        /\ IF DivName(c.fn)
           THEN \E ub \in UBFor(c.fn, c.val1) :
                  calls' = [calls EXCEPT ![t] =
                     [c EXCEPT !.conv1 = ConvFor(c.fn, c.val1, ub),
                               !.pc = "core"]]
           ELSE \E ub \in UBFor(c.fn, c.val2) :
                  calls' = [calls EXCEPT ![t] =
                     [c EXCEPT !.conv2 = ConvFor(c.fn, c.val2, ub),
                               !.pc = "core"]]
        /\ UNCHANGED <<frames, Sequential>>

\* the core operation stores its result in rFixed
CoreStep(t) ==
    LET c == calls[t]
    IN  /\ c.pc = "core"
        /\ frames' = [frames EXCEPT ![Frame(t)] =
                         CoreFor(c.fn, c.conv1.raw, c.conv2.raw)]
        /\ calls' = [calls EXCEPT ![t] =
              [c EXCEPT !.pc = "write"]]
        /\ UNCHANGED Sequential

\* WriteBack starting the call again when an inner call saturated
WriteBack_RetriesOnSaturation(t) ==
    LET c == calls[t]
        rFixed == frames[Frame(t)]
    IN  /\ c.pc = "write"
        /\ calls' = [calls EXCEPT ![t] =
              [c EXCEPT !.pc = IF Aggregate(c.conv1, c.conv2, rFixed) = E_OK
                               THEN "done" ELSE "first",
                        !.ret = Aggregate(c.conv1, c.conv2, rFixed),
                        !.slot = BackFor(c.fn, rFixed.raw),
                        !.overlapped = Overlap(t)]]
        /\ UNCHANGED <<frames, Sequential>>

\* the status is aggregated and rFixed is written back through result
WriteBack(t) ==
    LET c == calls[t]
        rFixed == frames[Frame(t)]
    IN  /\ c.pc = "write"
        /\ calls' = [calls EXCEPT ![t] =
              [c EXCEPT !.pc = "done",
                        !.ret = Aggregate(c.conv1, c.conv2, rFixed),
                        !.slot = BackFor(c.fn, rFixed.raw),
                        !.overlapped = Overlap(t)]]
        /\ UNCHANGED <<frames, Sequential>>

Next_Threads ==
    \E t \in Threads :
        \/ Invoke(t)
        \/ FirstConversion(t)
        \/ SecondConversion(t)
        \/ CoreStep(t)
        \/ WriteBack(t)

SpecThreads == Init_Threads /\ [][Next_Threads]_vars

(***************************************************************************)
(* One caller executing the eight wrappers statement by statement, with    *)
(* and without an output slot.  A call that has been entered keeps         *)
(* executing: its steps are weakly fair.  The caller makes one call.       *)
(***************************************************************************)
Caller == 1

Wrappers ==
    {"Add16", "Sub16", "Mult16", "Div16", "Add8", "Sub8", "Mult8", "Div8"}

\* 0, 1.0, MAX_REAL of the 16-bit width, a quarter of an 8-bit LSB, and
\* operands whose conversion is undefined in the 8-bit and in both widths
StepInputs ==
    {FNorm(FALSE, 0, 0), FNorm(FALSE, 1, 0), FDivPow2(FIX16_MAX, SHIFT_16),
     FromQuarters(1, SHIFT_8), PowerOfTwo(FALSE, 12), PowerOfTwo(TRUE, 24)}

StepCalls ==
    {ThreadCall(name, x, y, out) :
        name \in Wrappers, x \in StepInputs, y \in StepInputs, out \in BOOLEAN}

\* entry of any wrapper with any of the operands, by a caller that has not
\* called yet
InvokeAny(t) ==
    /\ calls[t].pc = "ready"
    /\ \E c \in StepCalls :
         /\ calls' = [calls EXCEPT ![t] =
                [NoCall EXCEPT !.pc = IF c.outp THEN "first" ELSE "done",
                               !.fn = c.fn, !.val1 = c.val1,
                               !.val2 = c.val2, !.outp = c.outp]]
         /\ frames' = IF c.outp THEN [frames EXCEPT ![Frame(t)] = NoRes]
                      ELSE frames
    /\ UNCHANGED Sequential

\* a statement of the call in progress
CallStep(t) ==
    \/ FirstConversion(t)
    \/ SecondConversion(t)
    \/ CoreStep(t)
    \/ WriteBack(t)

Next_Steps ==
    \/ InvokeAny(Caller)
    \/ FirstConversion(Caller)
    \/ SecondConversion(Caller)
    \/ CoreStep(Caller)
    \/ WriteBack(Caller)

SpecSteps ==
    Init_Threads /\ [][Next_Steps]_vars /\ WF_vars(CallStep(Caller))

(***************************************************************************)
(* The core operations under every permitted configuration.  The compile   *)
(* time checks accept SHIFT_16 in 0 .. 15 and SHIFT_8 in 0 .. 7; the       *)
(* container limits do not depend on the configuration.  Every call        *)
(* records in `wide` the intermediate values it computes, each with the    *)
(* width and signedness of the integer type the source computes it in.     *)
(* The model's integers are exact below 2^31: a type of 32 bits or more is *)
(* represented by the signed 32-bit range, which each of them holds.       *)
(***************************************************************************)
MAX_SHIFT_16 == 15
MAX_SHIFT_8 == 7

\* each width's fractional bits take every permitted value; the operations
\* of one width do not read the setting of the other width
Configurations ==
    {[shift16 |-> n, shift8 |-> n \div 2] : n \in 0..MAX_SHIFT_16}

\* an intermediate value and the integer type that holds it
Typed(v, bits, signed) == [v |-> v, bits |-> bits, signed |-> signed]

\* Add8_Wide with the sum computed in the container type
Add8_Wide_InContainer(a, b) == {Typed(a + b, 8, TRUE)}

\* sint16 tmp = (sint16)a + (sint16)b
Add8_Wide(a, b) == {Typed(a + b, 16, TRUE)}

\* sint16 tmp = (sint16)a - (sint16)b
Sub8_Wide(a, b) == {Typed(a - b, 16, TRUE)}

\* sint32 tmp = (sint32)a + (sint32)b
Add16_Wide(a, b) == {Typed(a + b, 32, TRUE)}

\* sint32 tmp = (sint32)a - (sint32)b
Sub16_Wide(a, b) == {Typed(a - b, 32, TRUE)}

\* the product, the rounding half, the magnitude, the biased magnitude, the
\* shifted magnitude and the signed result, all in the signed type of `bits`
Mult_Wide(a, b, shift, bits) ==
    LET tmp == a * b
        mag == Abs(tmp)
    IN  {Typed(tmp, bits, TRUE)}
        \cup IF shift > 0
             THEN {Typed(Pow2(shift - 1), bits, TRUE),
                   Typed(mag, bits, TRUE),
                   Typed(mag + Pow2(shift - 1), bits, TRUE),
                   Typed((mag + Pow2(shift - 1)) \div Pow2(shift), bits, TRUE),
                   Typed(RoundShift(tmp, shift), bits, TRUE)}
             ELSE {}

\* the negated operands in the signed type, the magnitudes, the shifted
\* numerator and the biased numerator in the unsigned type, the quotient and
\* the signed result in the signed type
Div_Wide(a, b, shift, bits) ==
    LET num_mag == Abs(a)
        den_mag == Abs(b)
        shifted == num_mag * Pow2(shift)
        num2 == shifted + (den_mag \div 2)
    IN  {Typed(num_mag, bits, TRUE), Typed(den_mag, bits, TRUE),
         Typed(num_mag, bits, FALSE), Typed(den_mag, bits, FALSE),
         Typed(shifted, bits, FALSE), Typed(den_mag \div 2, bits, FALSE),
         Typed(num2, bits, FALSE),
         Typed(num2 \div den_mag, bits, TRUE),
         Typed(RoundDiv(a, b, shift), bits, TRUE)}

\* Mult8 core rounding with a half of 1 when SHIFT_8 is 0
FixedPoint_Mult8_Core_At_AlwaysRounds(a, b, shift) ==
    LET tmp == a * b
        half == IF shift > 0 THEN Pow2(shift - 1) ELSE 1
        mag == (Abs(tmp) + half) \div Pow2(shift)
    IN  Saturate(IF tmp < 0 THEN -mag ELSE mag, FIX8_MIN, FIX8_MAX, 8)

\* FixedPoint_Mult8_Core built with SHIFT_8 = shift
FixedPoint_Mult8_Core_At(a, b, shift) ==
    Saturate(RoundShift(a * b, shift), FIX8_MIN, FIX8_MAX, 8)

\* Mult16 core rounding with an arithmetic shift of the signed product
FixedPoint_Mult16_Core_At_SignedShift(a, b, shift) ==
    LET tmp == a * b
        half == IF shift > 0 THEN Pow2(shift - 1) ELSE 0
    IN  Saturate((tmp + half) \div Pow2(shift), FIX16_MIN, FIX16_MAX, 16)

\* FixedPoint_Mult16_Core built with SHIFT_16 = shift
FixedPoint_Mult16_Core_At(a, b, shift) ==
    Saturate(RoundShift(a * b, shift), FIX16_MIN, FIX16_MAX, 16)

\* Div8 core dividing the unshifted numerator
FixedPoint_Div8_Core_At_NoShift(a, b, shift) ==
    Saturate(RoundDiv(a, b, 0), FIX8_MIN, FIX8_MAX, 8)

\* FixedPoint_Div8_Core built with SHIFT_8 = shift
FixedPoint_Div8_Core_At(a, b, shift) ==
    Saturate(RoundDiv(a, b, shift), FIX8_MIN, FIX8_MAX, 8)

\* Div16 core adding half the signed divisor to the signed numerator and
\* dividing by the signed divisor, the quotient truncated toward zero
FixedPoint_Div16_Core_At_SignedDivision(a, b, shift) ==
    LET half == IF b < 0 THEN -(Abs(b) \div 2) ELSE Abs(b) \div 2
        num == (a * Pow2(shift)) + half
        mag == Abs(num) \div Abs(b)
    IN  Saturate(IF (num < 0) # (b < 0) THEN -mag ELSE mag,
                 FIX16_MIN, FIX16_MAX, 16)

\* FixedPoint_Div16_Core built with SHIFT_16 = shift
FixedPoint_Div16_Core_At(a, b, shift) ==
    Saturate(RoundDiv(a, b, shift), FIX16_MIN, FIX16_MAX, 16)

\* powers of two and their negations in the container of `bits`
PowersOfTwo(bits) ==
    {Pow2(k) : k \in 0..(bits - 2)} \cup {-Pow2(k) : k \in 0..(bits - 1)}

\* the values around MIN, 0 and MAX of a container, and its powers of two
\* (every scale 2^n among them)
AnchorOperands(min, max, bits) ==
    (UNION {(c - CoreRadius)..(c + CoreRadius) : c \in {min, 0, max}}
     \cap (min..max))
    \cup PowersOfTwo(bits)

\* operands of the 8-bit operations: every container value a, anchors b
CfgOperands8A == Operands8
CfgOperands8B == AnchorOperands(FIX8_MIN, FIX8_MAX, 8)

\* operands of the 16-bit operations
CfgOperands16 == AnchorOperands(FIX16_MIN, FIX16_MAX, 16)

Init_Cfg ==
    /\ pc = "cfg"
    /\ fn = "none"
    /\ val1 = FNorm(FALSE, 0, 0)
    /\ val2 = FNorm(FALSE, 0, 0)
    /\ outp = TRUE
    /\ slot = FNorm(FALSE, 0, 0)
    /\ ret = E_NOT_OK
    /\ \/ \E a \in CfgOperands8A, b \in CfgOperands8B :
             conv1 = Operand(a) /\ conv2 = Operand(b)
       \/ \E a \in CfgOperands16, b \in CfgOperands16 :
             conv1 = Operand(a) /\ conv2 = Operand(b)
    /\ core = NoRes
    /\ trace = <<>>
    /\ calls = NoCalls
    /\ frames = NoFrames
    /\ cfg \in Configurations
    /\ wide = {}

\* return of a core operation built with the configuration cfg
ReturnCfg(name, c, w) ==
    /\ pc' = "done"
    /\ fn' = name
    /\ core' = c
    /\ ret' = c.ret
    /\ trace' = <<"core">>
    /\ wide' = w
    /\ UNCHANGED <<val1, val2, outp, slot, conv1, conv2, calls, frames, cfg>>

Cfg_Add16_Core ==
    /\ pc = "cfg"
    /\ conv1.raw \in CfgOperands16 /\ conv2.raw \in CfgOperands16
    /\ ReturnCfg("Add16_Core", FixedPoint_Add16_Core(conv1.raw, conv2.raw),
                 Add16_Wide(conv1.raw, conv2.raw))

Cfg_Sub16_Core ==
    /\ pc = "cfg"
    /\ conv1.raw \in CfgOperands16 /\ conv2.raw \in CfgOperands16
    /\ ReturnCfg("Sub16_Core", FixedPoint_Sub16_Core(conv1.raw, conv2.raw),
                 Sub16_Wide(conv1.raw, conv2.raw))

Cfg_Mult16_Core ==
    /\ pc = "cfg"
    /\ conv1.raw \in CfgOperands16 /\ conv2.raw \in CfgOperands16
    /\ ReturnCfg("Mult16_Core",
                 FixedPoint_Mult16_Core_At(conv1.raw, conv2.raw, cfg.shift16),
                 Mult_Wide(conv1.raw, conv2.raw, cfg.shift16, 64))

Cfg_Div16_Core ==
    /\ pc = "cfg"
    /\ conv1.raw \in CfgOperands16 /\ conv2.raw \in CfgOperands16
    /\ conv2.raw # 0
    /\ ReturnCfg("Div16_Core",
                 FixedPoint_Div16_Core_At(conv1.raw, conv2.raw, cfg.shift16),
                 Div_Wide(conv1.raw, conv2.raw, cfg.shift16, 64))

Cfg_Add8_Core ==
    /\ pc = "cfg"
    /\ conv1.raw \in CfgOperands8A /\ conv2.raw \in CfgOperands8B
    /\ ReturnCfg("Add8_Core", FixedPoint_Add8_Core(conv1.raw, conv2.raw),
                 Add8_Wide(conv1.raw, conv2.raw))

Cfg_Sub8_Core ==
    /\ pc = "cfg"
    /\ conv1.raw \in CfgOperands8A /\ conv2.raw \in CfgOperands8B
    /\ ReturnCfg("Sub8_Core", FixedPoint_Sub8_Core(conv1.raw, conv2.raw),
                 Sub8_Wide(conv1.raw, conv2.raw))

Cfg_Mult8_Core ==
    /\ pc = "cfg"
    /\ conv1.raw \in CfgOperands8A /\ conv2.raw \in CfgOperands8B
    /\ ReturnCfg("Mult8_Core",
                 FixedPoint_Mult8_Core_At(conv1.raw, conv2.raw, cfg.shift8),
                 Mult_Wide(conv1.raw, conv2.raw, cfg.shift8, 32))

Cfg_Div8_Core ==
    /\ pc = "cfg"
    /\ conv1.raw \in CfgOperands8A /\ conv2.raw \in CfgOperands8B
    /\ conv2.raw # 0
    /\ ReturnCfg("Div8_Core",
                 FixedPoint_Div8_Core_At(conv1.raw, conv2.raw, cfg.shift8),
                 Div_Wide(conv1.raw, conv2.raw, cfg.shift8, 32))

Next_Cfg ==
    \/ Cfg_Add16_Core
    \/ Cfg_Sub16_Core
    \/ Cfg_Mult16_Core
    \/ Cfg_Div16_Core
    \/ Cfg_Add8_Core
    \/ Cfg_Sub8_Core
    \/ Cfg_Mult8_Core
    \/ Cfg_Div8_Core

SpecCfg == Init_Cfg /\ [][Next_Cfg]_vars

(***************************************************************************)
(* The configured core operations together with the public wrappers        *)
(* called with the second operand 1.0.                                     *)
(***************************************************************************)
One == FNorm(FALSE, 1, 0)

\* the state before a wrapper call whose second operand is 1.0
Init_One ==
    /\ pc = "idle"
    /\ fn = "none"
    /\ val1 \in Inputs
    /\ val2 = One
    /\ outp \in BOOLEAN
    /\ slot \in Sentinels
    /\ ret = E_NOT_OK
    /\ conv1 = NoRes
    /\ conv2 = NoRes
    /\ core = NoRes
    /\ trace = <<>>
    /\ calls = NoCalls
    /\ frames = NoFrames
    /\ cfg = Shipped
    /\ wide = {}

Init_Identity == Init_Cfg \/ Init_One

Next_Identity == Next_Cfg \/ Next

SpecIdentity == Init_Identity /\ [][Next_Identity]_vars

(***************************************************************************)
(* Vocabulary of the properties.                                           *)
(***************************************************************************)
Done == pc = "done"

Wide ==
    fn \in {"Add16", "Sub16", "Mult16", "Div16", "FloatToFix16",
            "Fix16ToFloat", "Add16_Core", "Sub16_Core", "Mult16_Core", "Div16_Core"}

IsDiv == fn \in {"Div16", "Div8"}

MinOf == IF Wide THEN FIX16_MIN ELSE FIX8_MIN
MaxOf == IF Wide THEN FIX16_MAX ELSE FIX8_MAX
ShiftOf == IF Wide THEN SHIFT_16 ELSE SHIFT_8

\* the saturation check of an inner call replaced its value by a boundary
Clamped(r) == r.run /\ r.sat # r.pre

\* the write-back through the result pointer took place
Written == Len(trace) > 0 /\ trace[Len(trace)] = "write"

\* a Div wrapper returned on a zero converted divisor
DivByZeroReturn == Done /\ IsDiv /\ outp /\ conv2.run /\ conv2.raw = 0

(***************************************************************************)
(* C1: every raw value stored by a converter or a core operation lies in   *)
(* [MIN, MAX] of its width: the value that reaches the narrowing store is  *)
(* in the container range, so the stored raw value is that value.          *)
(***************************************************************************)
C1_RawInRange ==
    Done =>
        \A r \in {conv1, conv2, core} :
            r.run => /\ MinOf <= r.sat /\ r.sat <= MaxOf
                     /\ r.raw = r.sat

\* a converter input far below the range and a quotient far above it
C1_Witness ==
    /\ Done /\ fn = "Div8"
    /\ conv1.run /\ conv1.pre = SINT16_MIN /\ conv1.raw = FIX8_MIN
    /\ core.run /\ core.pre > FIX8_MAX /\ core.raw = FIX8_MAX

(***************************************************************************)
(* C2: with an output slot and the core executed, the returned status is   *)
(* E_OK exactly when none of the two conversions and the core operation    *)
(* clamped; any single clamp gives E_NOT_OK.                               *)
(***************************************************************************)
C2_StatusIffNoClamp ==
    (Done /\ outp /\ core.run) =>
        ((ret = E_OK) <=>
            (~Clamped(conv1) /\ ~Clamped(conv2) /\ ~Clamped(core)))

\* only the first conversion clamps, the core result is in range
C2_Witness ==
    /\ Done /\ outp /\ fn = "Add16"
    /\ Clamped(conv1) /\ ~Clamped(conv2) /\ ~Clamped(core)
    /\ core.run /\ core.raw < FIX16_MAX
    /\ ret = E_NOT_OK

(***************************************************************************)
(* C3: a Div call whose converted divisor is 0 returns E_NOT_OK and leaves *)
(* the output slot holding the value it held before the call.              *)
(***************************************************************************)
C3_DivZeroKeepsSlot ==
    [][(pc = "idle" /\ DivByZeroReturn') => (ret' = E_NOT_OK /\ slot' = slot)]_vars

\* a non-zero dividend, a zero divisor, and the sentinel still in the slot
C3_Witness ==
    /\ DivByZeroReturn /\ fn = "Div8"
    /\ val1.m # 0 /\ val2.m = 0
    /\ slot = FNorm(TRUE, 99, 0)

(***************************************************************************)
(* C4 (as claimed): the status returned for a zero converted divisor       *)
(* differs from E_OK and from the status a saturated division returns.     *)
(***************************************************************************)
\* the status the wrapper returns when an inner call saturated
SaturatedStatus ==
    Aggregate(Res(E_OK, 0, 0, 8), Res(E_OK, 1, 1, 8), Res(E_NOT_OK, 128, 127, 8))

C4_DivZeroDistinct ==
    DivByZeroReturn => (ret # E_OK /\ ret # SaturatedStatus)

(***************************************************************************)
(* C4 (amended): the status has the two values E_OK and E_NOT_OK only; a   *)
(* zero converted divisor returns E_NOT_OK, which differs from E_OK and is *)
(* the same value a saturated division returns.                            *)
(***************************************************************************)
C4_DivZeroIsNotOk ==
    /\ Done => ret \in {E_OK, E_NOT_OK}
    /\ DivByZeroReturn => (ret = E_NOT_OK /\ ret = SaturatedStatus)
    /\ (Done /\ IsDiv /\ Clamped(core)) => ret = E_NOT_OK

\* a 16-bit division by a zero converted divisor
C4_Witness ==
    /\ DivByZeroReturn /\ fn = "Div16"
    /\ ret = E_NOT_OK /\ ~core.run

(***************************************************************************)
(* Real-number vocabulary: the magnitude m * 2^e of a float as integer     *)
(* part ip, frac (a fractional part is present) and half (the fractional   *)
(* part is 1/2 or more); big: the magnitude is 2^31 or more.               *)
(***************************************************************************)
FMag(f) ==
    IF f.e >= 0
    THEN IF BitLen(f.m) + f.e > 31
         THEN [big |-> TRUE, ip |-> 0, frac |-> FALSE, half |-> FALSE]
         ELSE [big |-> FALSE, ip |-> f.m * Pow2(f.e),
               frac |-> FALSE, half |-> FALSE]
    ELSE IF -f.e > FLT_MANT_DIG
         THEN [big |-> FALSE, ip |-> 0, frac |-> f.m # 0, half |-> FALSE]
         ELSE [big |-> FALSE, ip |-> f.m \div Pow2(-f.e),
               frac |-> (f.m % Pow2(-f.e)) # 0,
               half |-> 2 * (f.m % Pow2(-f.e)) >= Pow2(-f.e)]

\* the operand scaled by the scale of the called wrapper's width
ScaledOf(val) == FMulPow2(val, ShiftOf)

\* the operand is a real value above MAX_REAL / below MIN_REAL
AboveMaxReal(val) ==
    LET s == ScaledOf(val)
        g == FMag(s)
    IN  ~s.neg /\ (g.big \/ g.ip > MaxOf \/ (g.ip = MaxOf /\ g.frac))

BelowMinReal(val) ==
    LET s == ScaledOf(val)
        g == FMag(s)
    IN  s.neg /\ (g.big \/ g.ip > -MinOf \/ (g.ip = -MinOf /\ g.frac))

\* the scaled operand, rounded half away from zero, is above MAX / below MIN
RoundedAboveMax(val) ==
    LET s == ScaledOf(val)
        g == FMag(s)
    IN  ~s.neg /\ (g.big \/ g.ip > MaxOf \/ (g.ip = MaxOf /\ g.half))

RoundedBelowMin(val) ==
    LET s == ScaledOf(val)
        g == FMag(s)
    IN  s.neg /\ (g.big \/ g.ip > -MinOf \/ (g.ip = -MinOf /\ g.half))

\* 0 < |val| < 0.5 / scale, and |val| >= 0.5 / scale
NonZeroBelowHalfLsb(val) ==
    LET g == FMag(ScaledOf(val))
    IN  val.m # 0 /\ ~g.big /\ g.ip = 0 /\ ~g.half

AtLeastHalfLsb(val) ==
    LET g == FMag(ScaledOf(val))
    IN  g.big \/ g.ip > 0 \/ g.half

\* the operands of the call with the conversion results they produced
Conversions == {<<val1, conv1>>, <<val2, conv2>>}

(***************************************************************************)
(* C5 (as claimed): in a Div call with an output slot, a non-zero real     *)
(* divisor of magnitude below 0.5/scale gives the division-by-zero         *)
(* failure with the slot unmodified, and a divisor of magnitude 0.5/scale  *)
(* or more has the core division executed and the slot written.            *)
(***************************************************************************)
C5_ZeroCheckByMagnitude ==
    [][(pc = "idle" /\ Done' /\ IsDiv' /\ outp') =>
        /\ NonZeroBelowHalfLsb(val2)' =>
              (ret' = E_NOT_OK /\ ~core'.run /\ ~Written' /\ slot' = slot)
        /\ AtLeastHalfLsb(val2)' => (core'.run /\ Written')]_vars

(***************************************************************************)
(* C6: a wrapper called without an output slot returns E_NOT_OK and runs   *)
(* no conversion, no core operation and no write-back.                     *)
(***************************************************************************)
C6_NullDoesNothing ==
    (Done /\ ~outp) =>
        /\ ret = E_NOT_OK
        /\ ~conv1.run /\ ~conv2.run /\ ~core.run
        /\ trace = <<>>

\* a NULL call with operands that would otherwise saturate the product
C6_Witness ==
    /\ Done /\ ~outp /\ fn = "Mult16"
    /\ val1 = PowerOfTwo(FALSE, 12) /\ val2 = PowerOfTwo(TRUE, 12)
    /\ ret = E_NOT_OK

(***************************************************************************)
(* C7: whenever a slot is supplied (and, for Div, the converted divisor is *)
(* non-zero) the slot is written, whatever the status, with the core       *)
(* operation applied to the converted operands, divided by the scale.      *)
(***************************************************************************)
ConvOf(val, ub) ==
    IF Wide THEN FixedPoint_FloatToFix16(val, ub)
    ELSE FixedPoint_FloatToFix8(val, ub)

UBOf(val) == IF Wide THEN UB32(val) ELSE UB16(val)

CoreOf(a, b) ==
    CASE fn = "Add16" -> FixedPoint_Add16_Core(a, b)
      [] fn = "Sub16" -> FixedPoint_Sub16_Core(a, b)
      [] fn = "Mult16" -> FixedPoint_Mult16_Core(a, b)
      [] fn = "Div16" -> FixedPoint_Div16_Core(a, b)
      [] fn = "Add8" -> FixedPoint_Add8_Core(a, b)
      [] fn = "Sub8" -> FixedPoint_Sub8_Core(a, b)
      [] fn = "Mult8" -> FixedPoint_Mult8_Core(a, b)
      [] fn = "Div8" -> FixedPoint_Div8_Core(a, b)

C7_SlotAlwaysWritten ==
    (Done /\ outp /\ (IsDiv => conv2.raw # 0)) =>
        /\ core.run /\ Written
        /\ \E ub1 \in UBOf(val1), ub2 \in UBOf(val2) :
              /\ conv1 = ConvOf(val1, ub1)
              /\ conv2 = ConvOf(val2, ub2)
        /\ core = CoreOf(conv1.raw, conv2.raw)
        /\ FMulPow2(slot, ShiftOf) = FNorm(core.raw < 0, Abs(core.raw), 0)

\* a saturated difference: status E_NOT_OK and MIN_REAL in the slot
C7_Witness ==
    /\ Done /\ outp /\ fn = "Sub16"
    /\ ~Clamped(conv1) /\ ~Clamped(conv2) /\ Clamped(core)
    /\ ret = E_NOT_OK /\ Written
    /\ slot = FNorm(TRUE, 128, 0)

(***************************************************************************)
(* C8 (as claimed): every operand above MAX_REAL converts to raw MAX with  *)
(* status E_NOT_OK, every operand below MIN_REAL to raw MIN with status    *)
(* E_NOT_OK.                                                               *)
(***************************************************************************)
C8_SaturationMonotone ==
    Done =>
        \A p \in Conversions :
            p[2].run =>
                /\ AboveMaxReal(p[1]) =>
                      (p[2].raw = MaxOf /\ p[2].ret = E_NOT_OK)
                /\ BelowMinReal(p[1]) =>
                      (p[2].raw = MinOf /\ p[2].ret = E_NOT_OK)

(***************************************************************************)
(* C9 (as claimed): whenever the rounded scaled operand does not fit the   *)
(* container, the conversion stores the nearest boundary and returns       *)
(* E_NOT_OK, whatever the magnitude of the scaled value.                   *)
(***************************************************************************)
C9_SaturatesAnyMagnitude ==
    Done =>
        \A p \in Conversions :
            p[2].run =>
                /\ RoundedAboveMax(p[1]) =>
                      (p[2].sat = MaxOf /\ p[2].raw = MaxOf
                       /\ p[2].ret = E_NOT_OK)
                /\ RoundedBelowMin(p[1]) =>
                      (p[2].sat = MinOf /\ p[2].raw = MinOf
                       /\ p[2].ret = E_NOT_OK)

(***************************************************************************)
(* C10: an operand whose scaled value is k + 0.5 converts to raw k + 1     *)
(* with status E_OK when k + 1 <= MAX, and an operand whose scaled value   *)
(* is -(k + 0.5) converts to raw -(k + 1) with status E_OK when            *)
(* -(k + 1) >= MIN (ties away from zero).                                  *)
(***************************************************************************)
\* the scaled operand is an odd multiple of 1/2
IsTie(val) == ScaledOf(val).e = -1

TieK(val) == (ScaledOf(val).m - 1) \div 2

C10_TiesAwayFromZero ==
    Done =>
        \A p \in Conversions :
            (p[2].run /\ IsTie(p[1])) =>
                /\ (~p[1].neg /\ TieK(p[1]) + 1 <= MaxOf) =>
                      (p[2].raw = TieK(p[1]) + 1 /\ p[2].ret = E_OK)
                /\ (p[1].neg /\ -(TieK(p[1]) + 1) >= MinOf) =>
                      (p[2].raw = -(TieK(p[1]) + 1) /\ p[2].ret = E_OK)

\* -0.5 LSB converted to raw -1 (not 0) by the 8-bit converter
C10_Witness ==
    /\ Done /\ fn = "FloatToFix8"
    /\ Scaled8(val1) = [neg |-> TRUE, m |-> 1, e |-> -1]
    /\ conv1.run /\ conv1.raw = -1 /\ conv1.ret = E_OK

(***************************************************************************)
(* C11 (as claimed): every operand of magnitude below 0.5/scale converts   *)
(* to raw 0 with status E_OK, and an Add call with two such operands       *)
(* stores exactly 0 and returns E_OK.                                      *)
(***************************************************************************)
\* |val| < 0.5 / scale, zero included
BelowHalfLsb(val) == val.m = 0 \/ NonZeroBelowHalfLsb(val)

IsAdd == fn \in {"Add16", "Add8"}

C11_UnderflowIsZero ==
    Done =>
        /\ \A p \in Conversions :
              (p[2].run /\ BelowHalfLsb(p[1])) =>
                  (p[2].raw = 0 /\ p[2].ret = E_OK)
        /\ (IsAdd /\ outp /\ BelowHalfLsb(val1) /\ BelowHalfLsb(val2)) =>
              (slot = FNorm(FALSE, 0, 0) /\ ret = E_OK)

(***************************************************************************)
(* C12: an operand with |x| <= MAX_REAL that is more than half an LSB away *)
(* from the range boundaries converts with status E_OK, and converting the *)
(* stored container value back gives a float within one LSB of x.          *)
(***************************************************************************)
\* the inverse converter has been applied to the converted operand
RoundTripped == pc = "back"

\* |val| <= MAX_REAL
MagnitudeInRange(val) ==
    LET g == FMag(ScaledOf(val))
    IN  ~g.big /\ (g.ip < MaxOf \/ (g.ip = MaxOf /\ ~g.frac))

\* val is more than half an LSB below MAX_REAL
AwayFromMax(val) ==
    LET s == ScaledOf(val)
        g == FMag(s)
    IN  s.neg \/ g.ip < MaxOf - 1 \/ (g.ip = MaxOf - 1 /\ ~g.half)

\* the float f is r / scale for an integer r with |r - val * scale| <= 1
WithinOneLsb(f, val) ==
    LET t == ScaledOf(f)
        r == IF t.neg THEN -(t.m * Pow2(t.e)) ELSE t.m * Pow2(t.e)
        s == ScaledOf(val)
        g == FMag(s)
        d == IF s.neg THEN -(r + g.ip) ELSE r - g.ip
    IN  /\ t.e >= 0
        /\ (d \in {0, 1} \/ (d = -1 /\ ~g.frac))

C12_RoundTripWithinOneLsb ==
    (RoundTripped /\ MagnitudeInRange(val1) /\ AwayFromMax(val1)) =>
        (conv1.ret = E_OK /\ WithinOneLsb(slot, val1))

\* the largest float below half an LSB comes back as one LSB
C12_Witness ==
    /\ RoundTripped /\ fn = "Fix8ToFloat"
    /\ val1 = BelowHalf(FALSE, SHIFT_8)
    /\ conv1.ret = E_OK
    /\ slot = FNorm(FALSE, 1, -SHIFT_8)

(***************************************************************************)
(* C13: an operand that is exactly r / scale for a container value r in    *)
(* [MIN, MAX] converts to raw r with status E_OK, and Add of such an       *)
(* operand and 0 stores the operand unchanged and returns E_OK; MAX_REAL   *)
(* and MIN_REAL are such operands.                                         *)
(***************************************************************************)
\* the integer m * 2^e of a float with e >= 0
IntOf(f) == IF f.neg THEN -(f.m * Pow2(f.e)) ELSE f.m * Pow2(f.e)

\* val = r / scale for a container value r of the called width
Representable(val) ==
    LET s == ScaledOf(val)
    IN  /\ s.e >= 0
        /\ ~FMag(s).big
        /\ MinOf <= IntOf(s) /\ IntOf(s) <= MaxOf

\* the container value r of a representable operand
RawOf(val) == IntOf(ScaledOf(val))

C13_RepresentablePassThrough ==
    Done =>
        /\ \A p \in Conversions :
              (p[2].run /\ Representable(p[1])) =>
                  (p[2].raw = RawOf(p[1]) /\ p[2].ret = E_OK)
        /\ (IsAdd /\ outp /\ Representable(val1) /\ val2.m = 0) =>
              (slot = val1 /\ ret = E_OK)

\* Add(MIN_REAL, 0) of the 8-bit width
C13_Witness ==
    /\ Done /\ outp /\ fn = "Add8"
    /\ val1 = FDivPow2(FIX8_MIN, SHIFT_8) /\ val2.m = 0
    /\ slot = FDivPow2(FIX8_MIN, SHIFT_8) /\ ret = E_OK

(***************************************************************************)
(* C14: Add of two representable operands whose exact sum is above         *)
(* MAX_REAL stores MAX_REAL and returns E_NOT_OK, and Add of two whose     *)
(* exact sum is below MIN_REAL stores MIN_REAL and returns E_NOT_OK; this  *)
(* covers Add(MAX_REAL, resolution) and Add(MIN_REAL, -resolution).        *)
(***************************************************************************)
C14_AddSaturatesAtBoundary ==
    (Done /\ IsAdd /\ outp /\ Representable(val1) /\ Representable(val2)) =>
        /\ RawOf(val1) + RawOf(val2) > MaxOf =>
              (slot = FDivPow2(MaxOf, ShiftOf) /\ ret = E_NOT_OK)
        /\ RawOf(val1) + RawOf(val2) < MinOf =>
              (slot = FDivPow2(MinOf, ShiftOf) /\ ret = E_NOT_OK)

\* Add(MAX_REAL, resolution) of the 16-bit width
C14_Witness ==
    /\ Done /\ outp /\ fn = "Add16"
    /\ val1 = FDivPow2(FIX16_MAX, SHIFT_16)
    /\ val2 = FDivPow2(1, SHIFT_16)
    /\ slot = FDivPow2(FIX16_MAX, SHIFT_16) /\ ret = E_NOT_OK

(***************************************************************************)
(* True results.  The exact value val1 op val2 is compared with the range  *)
(* through integer bounds of the scaled operands: TrueAbove (TrueBelow)    *)
(* holds only if the exact result is above MAX_REAL (below MIN_REAL).      *)
(***************************************************************************)
\* largest scaled magnitude the comparisons multiply
MagCap == Pow2(15)

\* the scaled operand has magnitude at most 2^20
Moderate(val) ==
    LET g == FMag(ScaledOf(val))
    IN  ~g.big /\ g.ip <= Pow2(20)

\* floor and ceiling of the scaled operand
FloorOf(val) ==
    LET s == ScaledOf(val)
        g == FMag(s)
    IN  IF s.neg THEN -(g.ip + (IF g.frac THEN 1 ELSE 0)) ELSE g.ip

CeilOf(val) ==
    LET s == ScaledOf(val)
        g == FMag(s)
    IN  IF s.neg THEN -g.ip ELSE g.ip + (IF g.frac THEN 1 ELSE 0)

\* a lower bound (at most MagCap) and the ceiling of the scaled magnitude
MagLo(val) ==
    LET g == FMag(ScaledOf(val))
    IN  IF g.ip > MagCap THEN MagCap ELSE g.ip

MagHi(val) ==
    LET g == FMag(ScaledOf(val))
    IN  g.ip + (IF g.frac THEN 1 ELSE 0)

SameSign(x, y) == x.m # 0 /\ y.m # 0 /\ x.neg = y.neg
OppositeSign(x, y) == x.m # 0 /\ y.m # 0 /\ x.neg # y.neg

IsSub == fn \in {"Sub16", "Sub8"}
IsMult == fn \in {"Mult16", "Mult8"}

\* bounds of the magnitude of the exact product and quotient, times scale
ProductExceeds(limit) == MagLo(val1) * MagLo(val2) > limit * Pow2(ShiftOf)

QuotientExceeds(limit) ==
    /\ MagHi(val2) <= MagCap
    /\ MagLo(val1) * Pow2(ShiftOf) > limit * MagHi(val2)

TrueAbove ==
    CASE IsAdd -> FloorOf(val1) + FloorOf(val2) > MaxOf
      [] IsSub -> FloorOf(val1) - CeilOf(val2) > MaxOf
      [] IsMult -> SameSign(val1, val2) /\ ProductExceeds(MaxOf)
      [] IsDiv -> SameSign(val1, val2) /\ QuotientExceeds(MaxOf)
      [] OTHER -> FALSE

TrueBelow ==
    CASE IsAdd -> CeilOf(val1) + CeilOf(val2) < MinOf
      [] IsSub -> CeilOf(val1) - FloorOf(val2) < MinOf
      [] IsMult -> OppositeSign(val1, val2) /\ ProductExceeds(-MinOf)
      [] IsDiv -> OppositeSign(val1, val2) /\ QuotientExceeds(-MinOf)
      [] OTHER -> FALSE

(***************************************************************************)
(* C15 (as claimed): a wrapper call with an output slot (for Div, with a   *)
(* non-zero converted divisor) whose exact result val1 op val2 is above    *)
(* MAX_REAL stores MAX_REAL, one whose exact result is below MIN_REAL      *)
(* stores MIN_REAL, and both return E_NOT_OK.                              *)
(***************************************************************************)
C15_ClampsToNearestBoundary ==
    (Done /\ outp /\ (IsDiv => conv2.raw # 0)
          /\ Moderate(val1) /\ Moderate(val2)) =>
        /\ TrueAbove =>
              (slot = FDivPow2(MaxOf, ShiftOf) /\ ret = E_NOT_OK)
        /\ TrueBelow =>
              (slot = FDivPow2(MinOf, ShiftOf) /\ ret = E_NOT_OK)

(***************************************************************************)
(* Errors against the exact result, in units of 1/1024 LSB: the scaled     *)
(* operand lies between FloorFine / 1024 and CeilFine / 1024 (both exact   *)
(* for operands on the quarter-LSB grid).                                  *)
(***************************************************************************)
\* binary digits below one LSB kept by the error bounds
FineBits == 10

\* 1.1 LSB, rounded down to a multiple of 1/1024 LSB
Tolerance == (11 * Pow2(FineBits)) \div 10

FineOf(val) == FMulPow2(val, ShiftOf + FineBits)

FloorFine(val) ==
    LET s == FineOf(val)
        g == FMag(s)
    IN  IF s.neg THEN -(g.ip + (IF g.frac THEN 1 ELSE 0)) ELSE g.ip

CeilFine(val) ==
    LET s == FineOf(val)
        g == FMag(s)
    IN  IF s.neg THEN -g.ip ELSE g.ip + (IF g.frac THEN 1 ELSE 0)

\* MIN_REAL <= val <= MAX_REAL
InRealRange(val) == ~AboveMaxReal(val) /\ ~BelowMinReal(val)

\* the stored result is an integer number of LSBs
SlotIsRaw == ScaledOf(slot).e >= 0

\* the stored result in units of 1/1024 LSB
SlotFine == IntOf(ScaledOf(slot)) * Pow2(FineBits)

(***************************************************************************)
(* C16: an Add or Sub call with both operands in [MIN_REAL, MAX_REAL] and  *)
(* status E_OK stores a result at most 1.1 LSB away from the exact sum     *)
(* (difference) of the operands.                                           *)
(***************************************************************************)
C16_AddSubWithinTolerance ==
    (Done /\ outp /\ (IsAdd \/ IsSub) /\ ret = E_OK
          /\ InRealRange(val1) /\ InRealRange(val2)) =>
        /\ SlotIsRaw
        /\ IsAdd =>
              /\ SlotFine - (CeilFine(val1) + CeilFine(val2)) >= -Tolerance
              /\ SlotFine - (FloorFine(val1) + FloorFine(val2)) <= Tolerance
        /\ IsSub =>
              /\ SlotFine - (CeilFine(val1) - FloorFine(val2)) >= -Tolerance
              /\ SlotFine - (FloorFine(val1) - CeilFine(val2)) <= Tolerance

\* two operands just below half an LSB: the sum of about 1 LSB is stored
\* as 2 LSB
C16_Witness ==
    /\ Done /\ outp /\ fn = "Add16" /\ ret = E_OK
    /\ val1 = BelowHalf(FALSE, SHIFT_16) /\ val2 = BelowHalf(FALSE, SHIFT_16)
    /\ slot = FDivPow2(2, SHIFT_16)

(***************************************************************************)
(* C17 (as claimed): a Mult or Div call with both operands in              *)
(* [MIN_REAL, MAX_REAL] and status E_OK stores a result at most 1.1 LSB    *)
(* away from the exact product (quotient) of the operands.  Evaluated      *)
(* exactly, for operands on the quarter-LSB grid.                          *)
(***************************************************************************)
OnQuarterGrid(val) == ScaledOf(val).e >= -2

\* the scaled operand in quarter LSBs
QuartersOf(val) == IntOf(FMulPow2(val, ShiftOf + 2))

\* the stored result in LSBs
SlotRaw == IntOf(ScaledOf(slot))

C17_MultDivWithinTolerance ==
    (Done /\ outp /\ (IsMult \/ IsDiv) /\ core.run /\ ret = E_OK
          /\ InRealRange(val1) /\ InRealRange(val2)
          /\ OnQuarterGrid(val1) /\ OnQuarterGrid(val2)) =>
        LET q1 == QuartersOf(val1)
            q2 == QuartersOf(val2)
            scale == Pow2(ShiftOf)
        IN  /\ SlotIsRaw
            /\ IsMult =>
                  Abs((160 * scale * SlotRaw) - (10 * q1 * q2)) <= 176 * scale
            /\ IsDiv =>
                  Abs((10 * SlotRaw * q2) - (10 * scale * q1)) <= 11 * Abs(q2)

(***************************************************************************)
(* C17 (amended): a Mult or Div call with status E_OK stores a result at   *)
(* most 0.5 LSB away from the exact product (quotient) of the two          *)
(* converted operands raw1 / scale and raw2 / scale.                       *)
(***************************************************************************)
C17_MultDivOfConvertedWithinHalfLsb ==
    (Done /\ outp /\ (IsMult \/ IsDiv) /\ core.run /\ ret = E_OK) =>
        LET r1 == conv1.raw
            r2 == conv2.raw
            scale == Pow2(ShiftOf)
        IN  /\ SlotIsRaw
            /\ IsMult =>
                  Abs((2 * scale * SlotRaw) - (2 * r1 * r2)) <= scale
            /\ IsDiv =>
                  Abs((2 * SlotRaw * r2) - (2 * scale * r1)) <= Abs(r2)

\* a quarter of an LSB divided by half an LSB: the operands convert to raw
\* 0 and 1, the stored quotient is 0 and the exact quotient is 0.5
C17_Witness ==
    /\ Done /\ outp /\ fn = "Div8" /\ ret = E_OK
    /\ val1 = FromQuarters(1, SHIFT_8) /\ val2 = FromQuarters(2, SHIFT_8)
    /\ conv1.raw = 0 /\ conv2.raw = 1
    /\ slot = FNorm(FALSE, 0, 0)

(***************************************************************************)
(* C19: core Add and Sub store clamp(a + b) and clamp(a - b) of the exact  *)
(* integer sum (difference) and return E_NOT_OK exactly when it lies       *)
(* outside [MIN, MAX]; a - MIN is clamped to MAX exactly when a >= 0.      *)
(***************************************************************************)
IsAddCore == fn \in {"Add16_Core", "Add8_Core"}
IsSubCore == fn \in {"Sub16_Core", "Sub8_Core"}
IsMultCore == fn \in {"Mult16_Core", "Mult8_Core"}

\* x clamped into the container range of the called width
ClampOf(x) == IF x > MaxOf THEN MaxOf ELSE IF x < MinOf THEN MinOf ELSE x

OutOfRange(x) == x > MaxOf \/ x < MinOf

C19_CoreAddSubClamp ==
    (Done /\ (IsAddCore \/ IsSubCore)) =>
        LET a == conv1.raw
            b == conv2.raw
            x == IF IsAddCore THEN a + b ELSE a - b
        IN  /\ core.run
            /\ core.raw = ClampOf(x)
            /\ (core.ret = E_NOT_OK) <=> OutOfRange(x)
            /\ ret = core.ret
            /\ (IsSubCore /\ b = MinOf) =>
                  ((a >= 0) <=> (core.raw = MaxOf /\ core.ret = E_NOT_OK))

\* 0 - MIN: the difference 32768 is clamped to MAX
C19_Witness ==
    /\ Done /\ fn = "Sub16_Core"
    /\ conv1.raw = 0 /\ conv2.raw = FIX16_MIN
    /\ core.raw = FIX16_MAX /\ core.ret = E_NOT_OK

(***************************************************************************)
(* C20: core Mult stores clamp(q) for q = sign(p) * floor((|p| + 2^(n-1))  *)
(* / 2^n), p = a * b, n the number of fractional bits; q is p / 2^n        *)
(* rounded to the nearest integer, ties away from zero; the status is      *)
(* E_NOT_OK exactly when q lies outside [MIN, MAX].                        *)
(***************************************************************************)
C20_CoreMultRoundsAndClamps ==
    (Done /\ IsMultCore) =>
        LET p == conv1.raw * conv2.raw
            unit == Pow2(ShiftOf)
            mag == (Abs(p) + Pow2(ShiftOf - 1)) \div unit
            q == IF p < 0 THEN -mag ELSE mag
        IN  /\ core.run
            /\ core.raw = ClampOf(q)
            /\ (core.ret = E_NOT_OK) <=> OutOfRange(q)
            /\ ret = core.ret
            /\ 2 * Abs(p - (q * unit)) <= unit
            /\ (2 * Abs(p - (q * unit)) = unit) => (Abs(q) * unit > Abs(p))

\* (-1/16) * (8/16): the product -0.5 LSB is rounded away from zero to -1
C20_Witness ==
    /\ Done /\ fn = "Mult8_Core"
    /\ conv1.raw = -1 /\ conv2.raw = 8
    /\ core.raw = -1 /\ core.ret = E_OK

(***************************************************************************)
(* C18: whatever calls the other threads make, and however their steps     *)
(* interleave, a finished call has the status and the slot value the same  *)
(* call has when it runs alone (a function of its own operands), and a     *)
(* call that has not finished has not had its slot written by anyone.      *)
(***************************************************************************)
\* status and slot of a call with converted operands a and b, run alone
AloneOutcome(name, a, b) ==
    IF DivName(name) /\ b.raw = 0
    THEN [ret |-> E_NOT_OK, slot |-> SlotBefore]
    ELSE LET r == CoreFor(name, a.raw, b.raw)
         IN  [ret |-> Aggregate(a, b, r), slot |-> BackFor(name, r.raw)]

\* the outcomes of the call c run alone (one per result an undefined
\* conversion may have)
AloneOutcomes(c) ==
    IF ~c.outp THEN {[ret |-> E_NOT_OK, slot |-> SlotBefore]}
    ELSE {AloneOutcome(c.fn, ConvFor(c.fn, c.val1, u1),
                       ConvFor(c.fn, c.val2, u2)) :
             u1 \in UBFor(c.fn, c.val1), u2 \in UBFor(c.fn, c.val2)}

C18_CallsAreIndependent ==
    \A t \in Threads :
        LET c == calls[t]
        IN  /\ c.pc = "done" =>
                  [ret |-> c.ret, slot |-> c.slot] \in AloneOutcomes(c)
            /\ c.pc # "done" => c.slot = SlotBefore

\* a saturating Add16 finished while the other thread was inside a Div16
\* that has stored its own core result and not yet written it back
C18_Witness ==
    /\ calls[1].pc = "done" /\ calls[1].fn = "Add16" /\ calls[1].overlapped
    /\ calls[1].ret = E_NOT_OK
    /\ calls[1].slot = FDivPow2(FIX16_MAX, SHIFT_16)
    /\ calls[2].pc = "write" /\ calls[2].fn = "Div16"
    /\ frames[2].run /\ frames[2].raw # frames[1].raw

(***************************************************************************)
(* C21: core Div of a by a non-zero b stores                               *)
(* clamp(s * floor((|a| * 2^n + floor(|b| / 2)) / |b|)), s = -1 exactly    *)
(* for operands of opposite sign; the unclamped value is the exact         *)
(* quotient a * 2^n / b rounded to the nearest integer, ties away from     *)
(* zero, for odd and even |b|; the status is E_NOT_OK exactly when the     *)
(* rounded quotient lies outside [MIN, MAX].                               *)
(***************************************************************************)
IsDivCore == fn \in {"Div16_Core", "Div8_Core"}

\* q is the integer nearest to num / den (den > 0), ties away from zero
NearestAwayFromZero(q, num, den) ==
    /\ 2 * Abs(num - (q * den)) <= den
    /\ (2 * Abs(num - (q * den)) = den) => Abs(q * den) > Abs(num)
    /\ (num >= 0) => q >= 0
    /\ (num <= 0) => q <= 0

C21_CoreDivRoundsAndClamps ==
    (Done /\ IsDivCore) =>
        LET a == conv1.raw
            b == conv2.raw
            s == IF (a < 0) # (b < 0) THEN -1 ELSE 1
            q == s * (((Abs(a) * Pow2(ShiftOf)) + (Abs(b) \div 2)) \div Abs(b))
        IN  /\ b # 0
            /\ core.run
            /\ core.pre = q
            /\ NearestAwayFromZero(q, s * Abs(a) * Pow2(ShiftOf), Abs(b))
            /\ core.raw = ClampOf(q)
            /\ (core.ret = E_NOT_OK) <=> OutOfRange(q)
            /\ ret = core.ret

\* -3 / 32 in the 8-bit width: the exact quotient -1.5 is a tie and the
\* stored quotient is -2
C21_Witness ==
    /\ Done /\ fn = "Div8_Core"
    /\ conv1.raw = -3 /\ conv2.raw = 32
    /\ core.raw = -2 /\ ret = E_OK

(***************************************************************************)
(* C22: the division of a core Div is never executed with a zero divisor:  *)
(* in every call of a Div wrapper the core runs only when the converted    *)
(* divisor is non-zero, a zero converted divisor returns E_NOT_OK without  *)
(* running the core, and the call returns one of the two status values.    *)
(***************************************************************************)
C22_CoreDivisorNonZero ==
    (Done /\ IsDiv) =>
        /\ core.run => (outp /\ conv2.run /\ conv2.raw # 0)
        /\ (outp /\ conv2.raw = 0) => (~core.run /\ ret = E_NOT_OK)
        /\ ret \in {E_OK, E_NOT_OK}

\* Div8 by a quarter of an LSB: the real divisor is not zero, the converted
\* divisor is, and the core is not run
C22_Witness ==
    /\ Done /\ outp /\ fn = "Div8"
    /\ val2 = FromQuarters(1, SHIFT_8)
    /\ conv2.run /\ conv2.raw = 0 /\ ~core.run
    /\ ret = E_NOT_OK

(***************************************************************************)
(* C23: a Div wrapper converts the divisor before the dividend and tests   *)
(* the converted divisor before any other step; with a zero converted      *)
(* divisor the dividend is not converted, the core is not run and the      *)
(* output slot is not written.                                             *)
(***************************************************************************)
C23_DivisorFirst ==
    (Done /\ IsDiv /\ outp) =>
        /\ conv2.run
        /\ trace[1] = "conv2"
        /\ (conv2.raw = 0) =>
              /\ trace = <<"conv2">>
              /\ ~conv1.run /\ ~core.run /\ ~Written
        /\ (conv2.raw # 0) =>
              /\ trace = <<"conv2", "conv1", "core", "write">>
              /\ conv1.run /\ core.run /\ Written

\* Div16 of 2.0 by 1 LSB: all four steps run, the divisor conversion first
C23_Witness ==
    /\ Done /\ outp /\ fn = "Div16"
    /\ conv2.raw = 1 /\ conv1.raw = 2 * SCALE_16
    /\ trace = <<"conv2", "conv1", "core", "write">>
    /\ ret = E_NOT_OK

(***************************************************************************)
(* C24: no intermediate value of a core operation leaves the integer type  *)
(* it is computed in, for every operand pair and every configuration with  *)
(* 0 <= SHIFT <= container bits - 1: the sum or difference fits 16 bits    *)
(* (8-bit width) or 32 bits (16-bit width), the product with the rounding  *)
(* half added fits the signed 32-bit (64-bit) type, and the shifted        *)
(* numerator magnitude with half the divisor magnitude added fits the      *)
(* unsigned 32-bit (64-bit) type, operands equal to MIN included.          *)
(***************************************************************************)
\* fractional bits of the called width in the configuration of the run
ShiftAt == IF Wide THEN cfg.shift16 ELSE cfg.shift8

\* the range of an integer type; a type of 32 bits or more is represented
\* by the non-negative (unsigned) or full (signed) 32-bit signed range
TypeMax(t) ==
    IF t.bits >= 32 THEN SINT32_MAX
    ELSE IF t.signed THEN Pow2(t.bits - 1) - 1 ELSE Pow2(t.bits) - 1

TypeMin(t) ==
    IF ~t.signed THEN 0
    ELSE IF t.bits >= 32 THEN SINT32_MIN ELSE -Pow2(t.bits - 1)

Fits(t) == TypeMin(t) <= t.v /\ t.v <= TypeMax(t)

\* bits of the widened type of the called operation
WideBits ==
    IF IsAddCore \/ IsSubCore THEN (IF Wide THEN 32 ELSE 16)
    ELSE (IF Wide THEN 64 ELSE 32)

C24_NoWideOverflow ==
    (Done /\ (IsAddCore \/ IsSubCore \/ IsMultCore \/ IsDivCore)) =>
        LET a == conv1.raw
            b == conv2.raw
        IN  /\ cfg.shift16 \in 0..MAX_SHIFT_16 /\ cfg.shift8 \in 0..MAX_SHIFT_8
            /\ wide # {}
            /\ \A t \in wide : t.bits = WideBits /\ Fits(t)
            /\ IsAddCore => Typed(a + b, WideBits, TRUE) \in wide
            /\ IsSubCore => Typed(a - b, WideBits, TRUE) \in wide
            /\ (IsMultCore /\ ShiftAt > 0) =>
                  Typed(Abs(a * b) + Pow2(ShiftAt - 1), WideBits, TRUE) \in wide
            /\ IsDivCore =>
                  Typed((Abs(a) * Pow2(ShiftAt)) + (Abs(b) \div 2),
                        WideBits, FALSE) \in wide

\* MIN / MIN of the 16-bit width with 15 fractional bits: the biased
\* numerator is 2^30 + 2^14
C24_Witness ==
    /\ Done /\ fn = "Div16_Core" /\ cfg.shift16 = MAX_SHIFT_16
    /\ conv1.raw = FIX16_MIN /\ conv2.raw = FIX16_MIN
    /\ Typed(Pow2(30) + Pow2(14), 64, FALSE) \in wide
    /\ core.raw = FIX16_MAX /\ ret = E_NOT_OK

(***************************************************************************)
(* C25: with 0 fractional bits core Mult does not round: it stores         *)
(* clamp(a * b) and returns E_NOT_OK exactly when a * b is outside         *)
(* [MIN, MAX].                                                             *)
(***************************************************************************)
C25_MultWithoutFraction ==
    (Done /\ IsMultCore /\ ShiftAt = 0) =>
        LET p == conv1.raw * conv2.raw
        IN  /\ core.run
            /\ core.pre = p
            /\ core.raw = ClampOf(p)
            /\ (core.ret = E_NOT_OK) <=> OutOfRange(p)
            /\ ret = core.ret
            /\ wide = {Typed(p, WideBits, TRUE)}

\* 127 * 1 of the 8-bit width with SHIFT_8 = 0: the product MAX is stored
\* with E_OK
C25_Witness ==
    /\ Done /\ fn = "Mult8_Core" /\ cfg.shift8 = 0
    /\ conv1.raw = FIX8_MAX /\ conv2.raw = 1
    /\ core.raw = FIX8_MAX /\ ret = E_OK

(***************************************************************************)
(* C26: core Mult is symmetric in the sign of b: for b # MIN, when neither *)
(* Mult(a, b) nor Mult(a, -b) saturates, Mult(a, -b) stores the negation   *)
(* of what Mult(a, b) stores, with the same status.                        *)
(***************************************************************************)
\* the core Mult and Div of the called width in the configuration of the run
MultOf(a, b) ==
    IF Wide THEN FixedPoint_Mult16_Core_At(a, b, cfg.shift16)
    ELSE FixedPoint_Mult8_Core_At(a, b, cfg.shift8)

DivOf(a, b) ==
    IF Wide THEN FixedPoint_Div16_Core_At(a, b, cfg.shift16)
    ELSE FixedPoint_Div8_Core_At(a, b, cfg.shift8)

C26_MultSignSymmetry ==
    (Done /\ IsMultCore /\ conv2.raw # MinOf) =>
        LET other == MultOf(conv1.raw, -conv2.raw)
        IN  (core.ret = E_OK /\ other.ret = E_OK) =>
                (other.raw = -core.raw /\ other.ret = core.ret)

\* -1 * 1 with one fractional bit: the exact result -0.5 is a tie, stored
\* as -1, and -1 * -1 stores 1
C26_Witness ==
    /\ Done /\ fn = "Mult16_Core" /\ cfg.shift16 = 1
    /\ conv1.raw = -1 /\ conv2.raw = 1
    /\ core.raw = -1 /\ ret = E_OK
    /\ MultOf(-1, -1).raw = 1

(***************************************************************************)
(* C27: core Div is symmetric in the sign of b: for a non-zero b # MIN,    *)
(* when neither Div(a, b) nor Div(a, -b) saturates, Div(a, -b) stores the  *)
(* negation of what Div(a, b) stores, with the same status; Div(0, b)      *)
(* stores 0 with E_OK for every non-zero b.                                *)
(***************************************************************************)
C27_DivSignSymmetry ==
    (Done /\ IsDivCore) =>
        /\ (conv2.raw # MinOf) =>
              LET other == DivOf(conv1.raw, -conv2.raw)
              IN  (core.ret = E_OK /\ other.ret = E_OK) =>
                      (other.raw = -core.raw /\ other.ret = core.ret)
        /\ (conv1.raw = 0) => (core.raw = 0 /\ core.ret = E_OK)

\* 1 / 4 with one fractional bit: the exact quotient 0.5 is a tie, stored
\* as 1, and 1 / -4 stores -1
C27_Witness ==
    /\ Done /\ fn = "Div16_Core" /\ cfg.shift16 = 1
    /\ conv1.raw = 1 /\ conv2.raw = 4
    /\ core.raw = 1 /\ ret = E_OK
    /\ DivOf(1, -4).raw = -1

(***************************************************************************)
(* C28: in every configuration in which 1.0 is representable (2^n <= MAX)  *)
(* core Mult(a, 2^n) and core Div(a, 2^n) store a with E_OK for every      *)
(* container value a, MIN and MAX included; a wrapper Mult or Div of a     *)
(* representable v and 1.0 stores v with E_OK.                             *)
(***************************************************************************)
C28_MultiplicativeIdentity ==
    Done =>
        /\ ((IsMultCore \/ IsDivCore) /\ Pow2(ShiftAt) <= MaxOf
              /\ conv2.raw = Pow2(ShiftAt)) =>
                (core.raw = conv1.raw /\ core.ret = E_OK /\ ret = E_OK)
        /\ ((IsMult \/ IsDiv) /\ outp /\ val2 = One /\ Representable(val1)) =>
                (slot = val1 /\ ret = E_OK)

\* MIN / 1.0 of the 8-bit width with 6 fractional bits
C28_Witness ==
    /\ Done /\ fn = "Div8_Core" /\ cfg.shift8 = 6
    /\ conv1.raw = FIX8_MIN /\ conv2.raw = Pow2(6)
    /\ core.raw = FIX8_MIN /\ ret = E_OK

(***************************************************************************)
(* C29: Add and Mult are commutative: for all real operands x and y the    *)
(* call with the operands exchanged returns the status and stores the      *)
(* result of the call itself, also when a conversion saturates.            *)
(***************************************************************************)
C29_Commutative ==
    (Done /\ outp /\ (IsAdd \/ IsMult)) =>
        \A o \in AloneOutcomes(ThreadCall(fn, val2, val1, TRUE)) :
            o = [ret |-> ret, slot |-> slot]

(***************************************************************************)
(* C30: every call of a public wrapper returns: with or without an output  *)
(* slot, whatever the operands, a call that was entered reaches its return *)
(* with one of the two status values; every step of the call moves it to a *)
(* later statement (no loop, no retry), so at most four steps lie between  *)
(* the entry and the return.                                               *)
(***************************************************************************)
\* position of a statement in the body of a wrapper
Rank(p) ==
    CASE p = "ready" -> 0
      [] p = "first" -> 1
      [] p = "second" -> 2
      [] p = "core" -> 3
      [] p = "write" -> 4
      [] p = "done" -> 5

\* a step of a call in progress moves it forward
Forward ==
    Busy(Caller) => Rank(calls'[Caller].pc) > Rank(calls[Caller].pc)

\* an entered wrapper is inside its body or has returned a status
Entered ==
    calls'[Caller].pc \in {"first", "done"}
    /\ (calls'[Caller].pc = "done" => calls'[Caller].ret = E_NOT_OK)

C30_EveryCallReturns ==
    /\ [][IF Busy(Caller) THEN Forward ELSE Entered]_vars
    /\ [](calls[Caller].pc = "done" => calls[Caller].ret \in {E_OK, E_NOT_OK})
    /\ (Busy(Caller) ~> (calls[Caller].pc = "done"))

\* a Mult8 call whose two conversions are undefined has returned
C30_Witness ==
    /\ calls[Caller].pc = "done" /\ calls[Caller].fn = "Mult8"
    /\ calls[Caller].outp
    /\ calls[Caller].val1 = PowerOfTwo(TRUE, 24)
    /\ calls[Caller].val2 = PowerOfTwo(FALSE, 12)
    /\ calls[Caller].ret = E_NOT_OK


====
